---- MODULE Spec2Model ----
(***************************************************************************)
(* Model of the scraperBOT repository: the record parser and the analysis  *)
(* engine (src/analyzer.py), the document extractor, score reconciler and  *)
(* league fetch orchestrator (src/scraper.py), the fetch cache, the        *)
(* commands and the message gate (src/app.py), and the administrators,     *)
(* prepaid codes and members (src/membership.py).                          *)
(*                                                                         *)
(* Conventions.                                                            *)
(*  - A text is a sequence of one-character strings.  "W" stands for the   *)
(*    character U+52DD (wins) and "L" for U+6557 (losses); "x" stands for  *)
(*    any character that is neither a digit, a dot, a sign, a blank, a     *)
(*    slash, a hyphen nor one of the two ideographs.                       *)
(*  - An optional value (Python None or a value) is a sequence of length   *)
(*    at most one: None == << >>, Some(v) == <<v>>.                        *)
(*  - A Python float is an exact rational held as an integer number of     *)
(*    1/Unit; the input texts are chosen so that every value is a whole    *)
(*    number of 1/Unit.                                                    *)
(***************************************************************************)
EXTENDS Integers, Sequences, FiniteSets, TLC

\* ------------------------------------------------------------------------
\* Optional values and small helpers
\* ------------------------------------------------------------------------
None == << >>

Some(v) == <<v>>

IsNone(o) == o = << >>

Val(o) == o[1]

Abs(n) == IF n < 0 THEN -n ELSE n

Min2(a, b) == IF b < a THEN b ELSE a

Max2(a, b) == IF b > a THEN b ELSE a

\* One unit of a Python float: 1.0 == Unit.  200 keeps two decimals and
\* their halves (away_adj / 2) integral.
Unit == 200

\* Python round(num / den): round half to even, num >= 0, den > 0.
RoundHalfEven(num, den) ==
    LET q == num \div den
        r == num % den
    IN  IF 2 * r < den THEN q
        ELSE IF 2 * r > den THEN q + 1
        ELSE IF q % 2 = 0 THEN q ELSE q + 1

\* (x * 2^n) mod den, by n doublings.
RECURSIVE ShiftRem(_, _, _)
ShiftRem(x, den, n) ==
    IF n = 0 THEN x % den ELSE (2 * ShiftRem(x, den, n - 1)) % den

\* Python round(x / den * 100) on IEEE doubles, for 0 < x < den that are
\* themselves exact.  Away from a tie the quotient's rounding error cannot
\* move the result.  At an exact tie k + 1/2 the double x / den is off by
\* d / (den * 2^s) (s = 52 + j, 2^-j <= x/den < 2^(1-j)); the product with
\* 100 rounds back to k + 1/2 only if that error is within half a unit in
\* the last place of k + 1/2, and then round() takes the even neighbour.
PyRoundPct(x, den) ==
    LET k == (100 * x) \div den
        r == (100 * x) % den
    IN  IF 2 * r < den THEN k
        ELSE IF 2 * r > den THEN k + 1
        ELSE LET j == CHOOSE n \in 1..16 : x * 2^n >= den /\ x * 2^(n - 1) < den
                 rem == ShiftRem(x, den, 52 + j)
                 odd == ((2 * ShiftRem(x, den, 51 + j)) \div den) % 2 = 1
                 d == IF rem = 0 THEN 0
                      ELSE IF 2 * rem < den THEN -rem
                      ELSE IF 2 * rem > den THEN den - rem
                      ELSE IF odd THEN den - rem ELSE -rem
                 L == CHOOSE n \in 0..7 : 2^n <= k /\ k < 2^(n + 1)
             IN  IF 100 * Abs(d) <= den * 2^(j + L - 1)
                 THEN (IF k % 2 = 0 THEN k ELSE k + 1)
                 ELSE IF d > 0 THEN k + 1 ELSE k

\* ------------------------------------------------------------------------
\* Text scanning (the regular expressions of src/analyzer.py)
\* ------------------------------------------------------------------------
Digits == {"0", "1", "2", "3", "4", "5", "6", "7", "8", "9"}

DigitVal(c) ==
    CASE c = "0" -> 0 [] c = "1" -> 1 [] c = "2" -> 2 [] c = "3" -> 3
      [] c = "4" -> 4 [] c = "5" -> 5 [] c = "6" -> 6 [] c = "7" -> 7
      [] c = "8" -> 8 [] c = "9" -> 9

\* Position after the longest run of characters of class cls starting at i.
RunEnd(s, i, cls) ==
    CHOOSE j \in i..(Len(s) + 1) :
        /\ \A k \in i..(j - 1) : s[k] \in cls
        /\ (j = Len(s) + 1 \/ s[j] \notin cls)

\* int() of the digit run s[i..j-1].
RECURSIVE ToInt(_, _, _)
ToInt(s, i, j) ==
    IF j <= i THEN 0 ELSE 10 * ToInt(s, i, j - 1) + DigitVal(s[j - 1])

RECURSIVE Pow10(_)
Pow10(k) == IF k <= 0 THEN 1 ELSE 10 * Pow10(k - 1)

\* (\d+)\s*<sep>\s*(\d+)<tail> anchored at position i; tail is a set of
\* characters that must follow after optional blanks, or {} for no tail.
\* Returns <<w, l>> or << >>.
MatchPairAt(s, i, seps, tail) ==
    LET a == RunEnd(s, i, Digits)
        b == RunEnd(s, a, {" "})
    IN  IF a = i \/ b > Len(s) \/ s[b] \notin seps THEN << >>
        ELSE LET c == RunEnd(s, b + 1, {" "})
                 d == RunEnd(s, c, Digits)
                 e == RunEnd(s, d, {" "})
             IN  IF d = c THEN << >>
                 ELSE IF tail # {} /\ (e > Len(s) \/ s[e] \notin tail) THEN << >>
                 ELSE <<ToInt(s, i, a), ToInt(s, c, d)>>

\* re.search: the match at the leftmost position that matches.
SearchPair(s, seps, tail) ==
    LET hits == {i \in 1..Len(s) : MatchPairAt(s, i, seps, tail) # << >>}
    IN  IF hits = {} THEN << >>
        ELSE MatchPairAt(s, CHOOSE i \in hits : \A k \in hits : i <= k, seps, tail)

NoFragment == [ok |-> FALSE]

Fragment(w, l) ==
    [ok |-> TRUE, w |-> w, l |-> l, total |-> w + l,
     pct |-> IF w + l > 0 THEN RoundHalfEven(1000 * w, w + l) ELSE 0]

\* The fragment of the first of the two patterns of parse_record that
\* matched: m1 the wins / losses form, m2 the hyphen form.
FirstFragment(m1, m2) ==
    IF m1 # << >> THEN Fragment(m1[1], m1[2])
    ELSE IF m2 # << >> THEN Fragment(m2[1], m2[2])
    ELSE NoFragment

\* parse_record with the hyphen form searched before the wins / losses form.
parse_record_pair_first(s) ==
    IF s = << >> THEN NoFragment
    ELSE FirstFragment(SearchPair(s, {"-"}, {}), SearchPair(s, {"W"}, {"L"}))

\* parse_record: pct is held in tenths of a percent (round(x, 1)); the
\* rounding is that of the double w / total * 100 for every total below 80.
parse_record(s) ==
    IF s = << >> THEN NoFragment
    ELSE FirstFragment(SearchPair(s, {"W"}, {"L"}), SearchPair(s, {"-"}, {}))


NumDot == Digits \cup {"."}

\* float() of the run s[i..j-1] of digits and dots: [ok, v] with v in 1/Unit.
\* Python accepts "12", "12.", ".5", "1.25" and rejects ".", "1.2.3".
ParseDecimal(s, i, j) ==
    LET dots == {k \in i..(j - 1) : s[k] = "."}
    IN  IF Cardinality(dots) > 1 \/ j - i - Cardinality(dots) < 1
        THEN [ok |-> FALSE, v |-> 0]
        ELSE LET d == IF dots = {} THEN j ELSE CHOOSE k \in dots : TRUE
                 fracLen == IF dots = {} THEN 0 ELSE j - d - 1
             IN  [ok |-> TRUE,
                  v  |-> ToInt(s, i, d) * Unit
                         + (ToInt(s, d + 1, j) * Unit) \div Pow10(fracLen)]

\* ([\d.]+)\s*/\s*([\d.]+) anchored at i: <<i, a, c, d>> (the two runs are
\* s[i..a-1] and s[c..d-1]) or << >>.
MatchAvgAt(s, i) ==
    LET a == RunEnd(s, i, NumDot)
        b == RunEnd(s, a, {" "})
    IN  IF a = i \/ b > Len(s) \/ s[b] # "/" THEN << >>
        ELSE LET c == RunEnd(s, b + 1, {" "})
                 d == RunEnd(s, c, NumDot)
             IN  IF d = c THEN << >> ELSE <<i, a, c, d>>

\* parse_avg_score: kind "none" (None), "frag" or "raise" (float() raised
\* ValueError, which parse_avg_score does not catch).
parse_avg_score(s) ==
    LET hits == {i \in 1..Len(s) : MatchAvgAt(s, i) # << >>}
    IN  IF s = << >> \/ hits = {} THEN [kind |-> "none", scored |-> 0, allowed |-> 0]
        ELSE LET m == MatchAvgAt(s, CHOOSE i \in hits : \A k \in hits : i <= k)
                 x == ParseDecimal(s, m[1], m[2])
                 y == ParseDecimal(s, m[3], m[4])
             IN  IF x.ok /\ y.ok
                 THEN [kind |-> "frag", scored |-> x.v, allowed |-> y.v]
                 ELSE [kind |-> "raise", scored |-> 0, allowed |-> 0]

\* float(spread_str) inside try/except (ValueError, TypeError):
\* [ok, v]; ok = FALSE is the except branch.  float() strips blanks and
\* takes one optional sign.
ParseFloat(s) ==
    LET lead  == RunEnd(s, 1, {" "})
        trail == IF lead > Len(s) THEN lead
                 ELSE CHOOSE j \in lead..Len(s) :
                        /\ s[j] # " "
                        /\ \A k \in (j + 1)..Len(s) : s[k] = " "
        signed == lead <= Len(s) /\ s[lead] \in {"+", "-"}
        from  == IF signed THEN lead + 1 ELSE lead
    IN  IF lead > Len(s) \/ from > trail
           \/ \E k \in from..trail : s[k] \notin NumDot
        THEN [ok |-> FALSE, v |-> 0]
        ELSE LET p == ParseDecimal(s, from, trail + 1)
             IN  IF ~p.ok THEN [ok |-> FALSE, v |-> 0]
                 ELSE [ok |-> TRUE,
                       v |-> IF signed /\ s[lead] = "-" THEN -p.v ELSE p.v]


\* ------------------------------------------------------------------------
\* Analysis engine: generate_analysis (src/analyzer.py)
\* ------------------------------------------------------------------------
VARIABLE now    \* the wall clock (datetime.now().timestamp()), in seconds

\* dict.get(key) on the record / odds map of a game: a map is a function
\* whose domain is the set of keys present.
HasKey(m, k) == k \in DOMAIN m

RecordOf(m, k) == IF HasKey(m, k) THEN parse_record(m[k]) ELSE NoFragment

AvgOf(m, k) ==
    IF HasKey(m, k) THEN parse_avg_score(m[k])
    ELSE [kind |-> "none", scored |-> 0, allowed |-> 0]

\* One rationale line: the template and the side it names.
Line(tag, who) == [tag |-> tag, who |-> who]

Effect(lines, h, a) == [lines |-> lines, h |-> h, a |-> a]

NoEffect == Effect(<< >>, 0, 0)

\* 1. season record (h_pct, a_pct in tenths of a percent)
SignalRecord(home_rec, away_rec) ==
    IF ~(home_rec.ok /\ away_rec.ok) THEN NoEffect
    ELSE IF home_rec.pct - away_rec.pct > 150
         THEN Effect(<<Line("record", "both"), Line("record_better", "home")>>, 8 * Unit, 0)
    ELSE IF away_rec.pct - home_rec.pct > 150
         THEN Effect(<<Line("record", "both"), Line("record_better", "away")>>, 0, 8 * Unit)
    ELSE Effect(<<Line("record", "both"), Line("record_close", "both")>>, 0, 0)

\* 2. last-10 form
SignalRecent(home_recent, away_recent) ==
    IF ~(home_recent.ok /\ away_recent.ok) THEN NoEffect
    ELSE LET h_r == home_recent.w
             a_r == away_recent.w
             hl == IF h_r >= 7 THEN <<Line("recent_hot", "home")>>
                   ELSE IF h_r <= 3 THEN <<Line("recent_cold", "home")>> ELSE << >>
             al == IF a_r >= 7 THEN <<Line("recent_hot", "away")>>
                   ELSE IF a_r <= 3 THEN <<Line("recent_cold", "away")>> ELSE << >>
         IN  Effect(<<Line("recent", "both")>> \o hl \o al,
                    (IF h_r >= 7 THEN 5 * Unit ELSE 0)
                      + (IF a_r < 7 /\ a_r <= 3 THEN 3 * Unit ELSE 0),
                    (IF h_r < 7 /\ h_r <= 3 THEN 3 * Unit ELSE 0)
                      + (IF a_r >= 7 THEN 5 * Unit ELSE 0))

\* 3. home / away split
SignalHomeAway(home_ha, away_ha) ==
    IF ~(home_ha.ok /\ away_ha.ok) THEN NoEffect
    ELSE LET hl == IF home_ha.pct > 600 THEN <<Line("ha_strong", "home")>> ELSE << >>
             al == IF away_ha.pct < 400 THEN <<Line("ha_weak", "away")>>
                   ELSE IF away_ha.pct > 550 THEN <<Line("ha_strong", "away")>>
                   ELSE << >>
         IN  Effect(<<Line("ha", "both")>> \o hl \o al,
                    (IF home_ha.pct > 600 THEN 4 * Unit ELSE 0)
                      + (IF away_ha.pct < 400 THEN 3 * Unit ELSE 0),
                    IF away_ha.pct >= 400 /\ away_ha.pct > 550 THEN 3 * Unit ELSE 0)

\* 4. scoring averages: rationale only, no accumulator is changed
SignalAvg(home_avg, away_avg, is_bball) ==
    IF ~(home_avg.kind = "frag" /\ away_avg.kind = "frag") THEN NoEffect
    ELSE LET h_net == home_avg.scored - home_avg.allowed
             a_net == away_avg.scored - away_avg.allowed
             twice_total == home_avg.scored + away_avg.scored
                            + home_avg.allowed + away_avg.allowed
             nl == IF h_net > 5 * Unit /\ a_net < -3 * Unit
                       THEN <<Line("avg_net", "home")>>
                   ELSE IF a_net > 5 * Unit /\ h_net < -3 * Unit
                       THEN <<Line("avg_net", "away")>>
                   ELSE IF home_avg.scored > away_avg.scored + 5 * Unit
                       THEN <<Line("avg_offense", "home")>>
                   ELSE IF away_avg.scored > home_avg.scored + 5 * Unit
                       THEN <<Line("avg_offense", "away")>>
                   ELSE << >>
             tl == IF ~is_bball THEN << >>
                   ELSE IF twice_total > 2 * 225 * Unit THEN <<Line("total_over", "both")>>
                   ELSE IF twice_total < 2 * 210 * Unit THEN <<Line("total_under", "both")>>
                   ELSE << >>
         IN  Effect(<<Line("avg", "both")>> \o nl \o tl, 0, 0)

\* 5. point spread (spread in 1/Unit)
SignalSpread(has_spread, spread) ==
    IF ~has_spread THEN NoEffect
    ELSE LET fav == IF spread > 0 THEN "home" ELSE "away"
             tag == IF Abs(spread) >= 10 * Unit THEN "spread_large"
                    ELSE IF Abs(spread) >= 5 * Unit THEN "spread_medium"
                    ELSE "spread_small"
         IN  IF spread > 0
             THEN Effect(<<Line(tag, fav)>>, Min2(10 * Unit, Abs(spread)), 0)
             ELSE Effect(<<Line(tag, fav)>>, 0, Min2(10 * Unit, Abs(spread)))

\* 6. head-to-head
SignalH2H(h2h_home, h2h_away) ==
    IF ~(h2h_home.ok /\ h2h_away.ok) THEN NoEffect
    ELSE IF h2h_home.w > h2h_away.w + 2
         THEN Effect(<<Line("h2h", "both"), Line("h2h_edge", "home")>>, 3 * Unit, 0)
    ELSE IF h2h_away.w > h2h_home.w + 2
         THEN Effect(<<Line("h2h", "both"), Line("h2h_edge", "away")>>, 0, 3 * Unit)
    ELSE Effect(<<Line("h2h", "both")>>, 0, 0)

\* 7. closing summary line, from total_adj = home_adj - away_adj
SummaryLine(total_adj) ==
    IF total_adj > 10 * Unit THEN Line("summary_strong", "home")
    ELSE IF total_adj > 4 * Unit THEN Line("summary_slight", "home")
    ELSE IF total_adj < -10 * Unit THEN Line("summary_strong", "away")
    ELSE IF total_adj < -4 * Unit THEN Line("summary_slight", "away")
    ELSE Line("summary_even", "both")

Result(hw, d, aw, lines, conf) ==
    [raised |-> FALSE, homeWin |-> hw, draw |-> d, awayWin |-> aw,
     suggestion |-> lines, confidence |-> conf]

TripleResult(t, lines, conf) == Result(t[1], t[2], t[3], lines, conf)

\* <<hw, d, 100 - hw - d>>: the away term takes the residual.
Residual(hw, d) == <<hw, d, 100 - hw - d>>

\* <<hw, 100 - hw - aw, aw>>: the draw term takes the residual.
ResidualDraw(hw, aw) == <<hw, 100 - hw - aw, aw>>

\* An exception leaves generate_analysis instead of a result.
Raised == [raised |-> TRUE]


\* The coverage test with a push counted as covering.
CoveredOrPush(diff, spread) ==
    IF spread > 0 THEN diff * Unit >= spread ELSE diff * Unit =< spread

\* covered = (diff > spread) if spread > 0 else (diff < spread); the spread
\* is in 1/Unit.
Covered(diff, spread) ==
    IF spread > 0 THEN diff * Unit > spread ELSE diff * Unit < spread

\* Finished branch (status 'finished' and homeScore present).
AnalyseFinished(game, is_bball, has_spread, spread) ==
    IF IsNone(game.awayScore) THEN Raised      \* int(None): TypeError
    ELSE
    LET hs == Val(game.homeScore)
        a_s == Val(game.awayScore)
        diff == hs - a_s
        winner == IF diff > 0 THEN "home" ELSE "away"
        margin == Abs(diff)
        desc == IF margin >= 15 THEN "final_dominant"
                ELSE IF margin >= 8 THEN "final_comfortable"
                ELSE "final_close"
        cover == IF ~has_spread THEN << >>
                 ELSE <<Line(IF Covered(diff, spread) THEN "covered" ELSE "not_covered",
                             IF spread > 0 THEN "home" ELSE "away")>>
        home_win == IF diff > 0 THEN 70 ELSE 25
        away_win == IF is_bball THEN 100 - home_win
                    ELSE IF diff < 0 THEN 60 ELSE 20
        draw == IF is_bball THEN 0 ELSE 100 - home_win - away_win
        total == home_win + draw + away_win
    IN  TripleResult(ResidualDraw(PyRoundPct(home_win, total), PyRoundPct(away_win, total)),
                     <<Line(desc, winner)>> \o cover, 90 * Unit)

\* Live branch (status 'live'); a missing score counts as 0.
AnalyseLive(game, is_bball) ==
    LET hs == IF IsNone(game.homeScore) THEN 0 ELSE Val(game.homeScore)
        a_s == IF IsNone(game.awayScore) THEN 0 ELSE Val(game.awayScore)
        diff == hs - a_s
        line == IF diff > 0 THEN Line("live_lead", "home")
                ELSE IF diff < 0 THEN Line("live_lead", "away")
                ELSE Line("live_tied", "both")
        home_win == IF diff > 0 THEN 62 ELSE IF diff < 0 THEN 35 ELSE 48
        away_win == IF is_bball THEN 100 - home_win
                    ELSE IF diff < 0 THEN 55 ELSE 30
        draw == IF is_bball THEN 0 ELSE 100 - home_win - away_win
        total == home_win + draw + away_win
    IN  TripleResult(ResidualDraw(PyRoundPct(home_win, total), PyRoundPct(away_win, total)),
                     <<line>>, 55 * Unit)

\* The effects of the six signal categories, in source order.
Signals(game, is_bball, has_spread, spread) ==
    LET rec == game.record
    IN  << SignalRecord(RecordOf(rec, "homeRecord"), RecordOf(rec, "awayRecord")),
           SignalRecent(RecordOf(rec, "homeRecent"), RecordOf(rec, "awayRecent")),
           SignalHomeAway(RecordOf(rec, "homeHomeAway"), RecordOf(rec, "awayHomeAway")),
           SignalAvg(AvgOf(rec, "homeAvg"), AvgOf(rec, "awayAvg"), is_bball),
           SignalSpread(has_spread, spread),
           SignalH2H(RecordOf(rec, "homeH2H"), RecordOf(rec, "awayH2H")) >>

\* home_win / away_win of the upcoming branch before rounding, in 1/Unit.
ClampWin(adj_self, adj_other) ==
    Max2(15 * Unit, Min2(80 * Unit, 45 * Unit + adj_self - adj_other \div 2))

\* UpcomingTriple with the draw term rounded like the other two instead of
\* taking the residual.
UpcomingTripleRoundedDraw(home_adj, away_adj, is_bball) ==
    LET home_win == ClampWin(home_adj, away_adj)
        away_win == ClampWin(away_adj, home_adj)
    IN  IF is_bball
        THEN Residual(PyRoundPct(home_win, home_win + away_win), 0)
        ELSE LET draw == Max2(5 * Unit, 100 * Unit - home_win - away_win)
                 t2 == home_win + draw + away_win
             IN  <<PyRoundPct(home_win, t2), PyRoundPct(draw, t2), PyRoundPct(away_win, t2)>>

\* The final probability triple <<homeWin, draw, awayWin>> of the upcoming
\* branch.
UpcomingTriple(home_adj, away_adj, is_bball) ==
    LET home_win == ClampWin(home_adj, away_adj)
        away_win == ClampWin(away_adj, home_adj)
    IN  IF is_bball
        THEN Residual(PyRoundPct(home_win, home_win + away_win), 0)
        ELSE LET draw == Max2(5 * Unit, 100 * Unit - home_win - away_win)
                 t2 == home_win + draw + away_win
             IN  ResidualDraw(PyRoundPct(home_win, t2), PyRoundPct(away_win, t2))

Confidence(total_adj) ==
    Min2(85 * Unit, Max2(40 * Unit, 50 * Unit + Abs(total_adj) * 2))

\* The rationale lines of the signals that fired, in source order.
FiredLines(sg) ==
    sg[1].lines \o sg[2].lines \o sg[3].lines \o sg[4].lines \o sg[5].lines \o sg[6].lines

HomeAdj(sg) == sg[1].h + sg[2].h + sg[3].h + sg[4].h + sg[5].h + sg[6].h

AwayAdj(sg) == sg[1].a + sg[2].a + sg[3].a + sg[4].a + sg[5].a + sg[6].a

\* The result of the upcoming branch: the triple t, the rationale lines
\* closed by the summary line, the confidence.
UpcomingResult(t, lines, total_adj) ==
    TripleResult(t, lines \o <<SummaryLine(total_adj)>>, Confidence(total_adj))

\* The 'if not lines' block: the fallback pair.
OrFallback(fired) ==
    IF fired = << >>
    THEN <<Line("fallback_home_advantage", "both"), Line("fallback_watch_injuries", "both")>>
    ELSE fired

\* UpcomingFrom without the fallback pair when no signal fired.
UpcomingFromSilent(sg, is_bball) ==
    UpcomingResult(UpcomingTriple(HomeAdj(sg), AwayAdj(sg), is_bball),
                   FiredLines(sg), HomeAdj(sg) - AwayAdj(sg))

\* The upcoming branch after the six signals sg.
UpcomingFrom(sg, is_bball) ==
    UpcomingResult(UpcomingTriple(HomeAdj(sg), AwayAdj(sg), is_bball),
                   OrFallback(FiredLines(sg)), HomeAdj(sg) - AwayAdj(sg))

\* Upcoming branch.
AnalyseUpcoming(game, is_bball, has_spread, spread) ==
    UpcomingFrom(Signals(game, is_bball, has_spread, spread), is_bball)

IsBasketball(sport) == sport = "basketball"

\* generate_analysis reading the wall clock: the confidence of an upcoming
\* game decays with the time of the call.
generate_analysis_clocked(game, sport) ==
    LET is_bball == IsBasketball(sport)
        spread_str == IF HasKey(game.odds, "spread") THEN game.odds["spread"] ELSE << >>
        f == ParseFloat(spread_str)
        spread == IF f.ok THEN f.v ELSE 0
        has_spread == f.ok /\ f.v # 0
    IN  IF AvgOf(game.record, "homeAvg").kind = "raise"
           \/ AvgOf(game.record, "awayAvg").kind = "raise"
        THEN Raised
        ELSE IF game.status = "finished" /\ ~IsNone(game.homeScore)
        THEN AnalyseFinished(game, is_bball, has_spread, spread)
        ELSE IF game.status = "live"
        THEN AnalyseLive(game, is_bball)
        ELSE LET r == AnalyseUpcoming(game, is_bball, has_spread, spread)
             IN  [r EXCEPT !.confidence = Max2(40 * Unit, @ - (now \div 60) * Unit)]

\* generate_analysis(game, sport).
\* generate_analysis taking the live branch only when the home score is
\* present, as the finished branch does.
generate_analysis_scored_live(game, sport) ==
    LET is_bball == IsBasketball(sport)
        spread_str == IF HasKey(game.odds, "spread") THEN game.odds["spread"] ELSE << >>
        f == ParseFloat(spread_str)
        spread == IF f.ok THEN f.v ELSE 0
        has_spread == f.ok /\ f.v # 0
    IN  IF AvgOf(game.record, "homeAvg").kind = "raise"
           \/ AvgOf(game.record, "awayAvg").kind = "raise"
        THEN Raised
        ELSE IF game.status = "finished" /\ ~IsNone(game.homeScore)
        THEN AnalyseFinished(game, is_bball, has_spread, spread)
        ELSE IF game.status = "live" /\ ~IsNone(game.homeScore)
        THEN AnalyseLive(game, is_bball)
        ELSE AnalyseUpcoming(game, is_bball, has_spread, spread)

generate_analysis(game, sport) ==
    LET is_bball == IsBasketball(sport)
        spread_str == IF HasKey(game.odds, "spread") THEN game.odds["spread"] ELSE << >>
        f == ParseFloat(spread_str)
        spread == IF f.ok THEN f.v ELSE 0
        has_spread == f.ok /\ f.v # 0
    IN  IF AvgOf(game.record, "homeAvg").kind = "raise"
           \/ AvgOf(game.record, "awayAvg").kind = "raise"
        THEN Raised                              \* ValueError from float()
        ELSE IF game.status = "finished" /\ ~IsNone(game.homeScore)
        THEN AnalyseFinished(game, is_bball, has_spread, spread)
        ELSE IF game.status = "live"
        THEN AnalyseLive(game, is_bball)
        ELSE AnalyseUpcoming(game, is_bball, has_spread, spread)


\* ------------------------------------------------------------------------
\* Inputs of the analysis engine
\* ------------------------------------------------------------------------
EmptyMap == [k \in {} |-> << >>]

\* Scores range over 0..MaxScore.
MaxScore == 16

Sports == {"basketball", "baseball", "soccer", "hockey", "tennis"}

\* '30W25L' (54.5%), '20W35L' (36.4%), '33 - 19' (63.5%), 'x12 - 13' (48%)
T_30W25L == <<"3", "0", "W", "2", "5", "L">>

T_20W35L == <<"2", "0", "W", "3", "5", "L">>

T_33_19 == <<"3", "3", " ", "-", " ", "1", "9">>

T_x12_13 == <<"x", "1", "2", " ", "-", " ", "1", "3">>

T_8_2 == <<"8", " ", "-", " ", "2", " ", "x">>

T_2_8 == <<"2", " ", "-", " ", "8">>

T_5_5 == <<"5", "-", "5">>

T_20_5 == <<"2", "0", " ", "-", " ", "5">>

T_junk == <<"x", "x">>

T_113_5_108_2 == <<"1", "1", "3", ".", "5", " ", "/", " ", "1", "0", "8", ".", "2">>

T_104_1_110_3 == <<"1", "0", "4", ".", "1", "/", "1", "1", "0", ".", "3">>

T_98_99_5 == <<"9", "8", " ", "/", " ", "9", "9", ".", "5">>

T_1_2_3_4 == <<"1", ".", "2", ".", "3", " ", "/", " ", "4">>

PairMaps(hk, ak, pairs) ==
    {EmptyMap} \cup {(hk :> p[1]) @@ (ak :> p[2]) : p \in pairs}

SeasonMaps ==
    PairMaps("homeRecord", "awayRecord",
             {<<T_30W25L, T_20W35L>>, <<T_20W35L, T_33_19>>, <<T_30W25L, T_x12_13>>,
              <<T_junk, T_30W25L>>})

RecentMaps ==
    PairMaps("homeRecent", "awayRecent",
             {<<T_8_2, T_8_2>>, <<T_2_8, T_5_5>>, <<T_5_5, T_2_8>>, <<T_2_8, T_8_2>>})

HomeAwayMaps ==
    PairMaps("homeHomeAway", "awayHomeAway",
             {<<T_20_5, T_2_8>>, <<T_x12_13, T_33_19>>, <<T_x12_13, T_x12_13>>})

AvgMaps ==
    PairMaps("homeAvg", "awayAvg",
             {<<T_113_5_108_2, T_104_1_110_3>>, <<T_98_99_5, T_113_5_108_2>>,
              <<T_98_99_5, T_104_1_110_3>>, <<T_1_2_3_4, T_98_99_5>>})

H2HMaps ==
    PairMaps("homeH2H", "awayH2H",
             {<<T_8_2, T_2_8>>, <<T_2_8, T_8_2>>, <<T_5_5, T_5_5>>})

RecordMaps ==
    {a @@ b @@ c @@ d @@ e :
        a \in SeasonMaps, b \in RecentMaps, c \in HomeAwayMaps,
        d \in AvgMaps, e \in H2HMaps}

\* '', '0', '-6', '2.5', '0.25', '12', '-12.5', ' +3 ', 'x'
SpreadTexts ==
    { << >>, <<"0">>, <<"-", "6">>, <<"2", ".", "5">>, <<"0", ".", "2", "5">>,
      <<"1", "2">>, <<"-", "1", "2", ".", "5">>, <<" ", "+", "3", " ">>, <<"x">> }

OddsMaps == {EmptyMap} \cup {[spread |-> t] : t \in SpreadTexts}

\* Final scores of a basketball game, beside the small range.
HighScores == {80, 98, 100, 102}

Scores == {None} \cup {Some(n) : n \in (0..MaxScore) \cup HighScores}

AnalysisGame(status, hs, as, rec, odds) ==
    [status |-> status, homeScore |-> hs, awayScore |-> as,
     record |-> rec, odds |-> odds]

\* Games before the first whistle carry the whole range of context; games
\* with scores carry the whole range of scores and spreads.
\* The context of a game in progress whose away side has the better record,
\* form, split, averages and head-to-head.
LiveContext ==
    ("homeRecord" :> T_20W35L) @@ ("awayRecord" :> T_33_19)
    @@ ("homeRecent" :> T_2_8) @@ ("awayRecent" :> T_8_2)
    @@ ("homeHomeAway" :> T_x12_13) @@ ("awayHomeAway" :> T_33_19)
    @@ ("homeAvg" :> T_98_99_5) @@ ("awayAvg" :> T_113_5_108_2)
    @@ ("homeH2H" :> T_2_8) @@ ("awayH2H" :> T_8_2)

AnalysisGames ==
    {AnalysisGame("upcoming", None, None, r, o) : r \in RecordMaps, o \in OddsMaps}
    \cup {AnalysisGame(st, hs, as, r, o) :
            st \in {"upcoming", "live", "finished"}, hs \in Scores, as \in Scores,
            r \in {EmptyMap}, o \in OddsMaps}
    \cup {AnalysisGame("live", hs, as, LiveContext, [spread |-> <<"1", "2">>]) :
            hs \in Scores, as \in Scores}


\* ------------------------------------------------------------------------
\* Score reconciler: parse_live_scores and the merge (src/scraper.py)
\* ------------------------------------------------------------------------
\* A live-view document is the sequence of its game containers, in document
\* order, with distinct ids; each container holds
\*   id                         : the site game id of outer-gamebox-<id>;
\*   asr_big, hsr_big, asr, hsr : None or Some(score), the four score markers;
\*   as_q, a_q, hs_q, h_q       : per period slot, None or Some(score), the
\*                                two marker schemes of each side;
\*   notend                     : the container carries 'gamebox-notend';
\*   closed                     : the end comment follows the container.
\* The code cuts the text of a game from its id to the next end comment,
\* whichever container that comment closes.
Periods == 8

FirstOf(a, b) == IF a # None THEN a ELSE b

\* The per-period sequence of one side: found slots, in slot order.
RECURSIVE Collect(_, _, _)
Collect(first, second, q) ==
    IF q = 0 THEN << >>
    ELSE LET m == FirstOf(first[q], second[q])
         IN  Collect(first, second, q - 1) \o (IF m # None THEN <<Val(m)>> ELSE << >>)

\* The index of the first closed container from i on, or 0 (find gives -1).
WindowEnd(boxes, i) ==
    LET closed == {k \in i..Len(boxes) : boxes[k].closed}
    IN  IF closed = {} THEN 0 ELSE CHOOSE k \in closed : \A m \in closed : k <= m

\* ScoreEntry with the status set as soon as either score is found.
ScoreEntryEitherScore(doc, i) ==
    LET e == doc[i]
        away_score == FirstOf(e.asr_big, e.asr)
        home_score == FirstOf(e.hsr_big, e.hsr)
        gb_end == WindowEnd(doc, i)
        gb_html_notend == gb_end # 0 /\ \E k \in i..gb_end : doc[k].notend
        status == IF away_score # None \/ home_score # None
                  THEN (IF gb_html_notend THEN Some("live") ELSE Some("finished"))
                  ELSE None
        qa == Collect(e.as_q, e.a_q, Periods)
        qh == Collect(e.hs_q, e.h_q, Periods)
        has_qs == Len(qa) > 0 \/ Len(qh) > 0
    IN  [awayScore |-> away_score, homeScore |-> home_score, status |-> status,
         quarterScores |-> IF has_qs THEN Some([away |-> qa, home |-> qh]) ELSE None]

ScoreEntry(doc, i) ==
    LET e == doc[i]
        away_score == FirstOf(e.asr_big, e.asr)
        home_score == FirstOf(e.hsr_big, e.hsr)
        gb_end == WindowEnd(doc, i)
        gb_html_notend == gb_end # 0 /\ \E k \in i..gb_end : doc[k].notend
        status == IF away_score # None /\ home_score # None
                  THEN (IF gb_html_notend THEN Some("live") ELSE Some("finished"))
                  ELSE None
        qa == Collect(e.as_q, e.a_q, Periods)
        qh == Collect(e.hs_q, e.h_q, Periods)
        has_qs == Len(qa) > 0 \/ Len(qh) > 0
    IN  [awayScore |-> away_score, homeScore |-> home_score, status |-> status,
         quarterScores |-> IF has_qs THEN Some([away |-> qa, home |-> qh]) ELSE None]

parse_live_scores(doc) ==
    [id \in {doc[i].id : i \in 1..Len(doc)} |->
        ScoreEntry(doc, CHOOSE i \in 1..Len(doc) : doc[i].id = id)]

\* The merge of one game (body of the loop in fetch_playsport).  gameId is
\* <<"num", n>> for a site game id and <<"sel", idx>> for 'sel_<idx>'; the
\* keys of score_data are site game ids.
\* MergeGame copying the four fields of the score entry unconditionally.
MergeGameOverwrite(game, score_data) ==
    LET gid == game.gameId
    IN  IF ~(gid[1] = "num" /\ gid[2] \in DOMAIN score_data) THEN game
        ELSE LET sd == score_data[gid[2]]
             IN  [game EXCEPT
                    !.awayScore = sd.awayScore,
                    !.homeScore = sd.homeScore,
                    !.status = IF sd.status # None THEN Val(sd.status) ELSE "",
                    !.quarterScores = sd.quarterScores]

MergeGame(game, score_data) ==
    LET gid == game.gameId
    IN  IF ~(gid[1] = "num" /\ gid[2] \in DOMAIN score_data) THEN game
        ELSE LET sd == score_data[gid[2]]
             IN  [game EXCEPT
                    !.awayScore = IF sd.awayScore # None THEN sd.awayScore ELSE @,
                    !.homeScore = IF sd.homeScore # None THEN sd.homeScore ELSE @,
                    !.status = IF sd.status # None THEN Val(sd.status) ELSE @,
                    !.quarterScores = IF sd.quarterScores # None
                                      THEN sd.quarterScores ELSE @]

MergeAll(games, score_data) ==
    [i \in 1..Len(games) |-> MergeGame(games[i], score_data)]

\* ------------------------------------------------------------------------
\* Document extractor: parse_pre_html (src/scraper.py)
\* ------------------------------------------------------------------------
\* A name or an option text is a sequence of tokens: "a", "b", ... stand for
\* a run of name characters, " " for a blank and "vs" for the substring
\* 'vs'.  The empty string is << >>.  A string that the code splits on '_'
\* (an oid, an option value) is the tuple of its parts: '' is <<"">>.
\*
\* A pre-game document is held as what the parser's searches find in it:
\*   options : the <option> elements in order, [value, text];
\*   boxes   : the outer-gamebox elements in order, each with
\*     id, oid                : the two groups of the gamebox pattern;
\*     preview                : preview_start > -1;
\*     left, right, center    : None or Some(stripped group) of left_m,
\*                              right_m, center_m inside the preview;
\*     stats                  : label -> None or Some(<<left, right>>);
\*     closed                 : the end comment follows the container;
\*     aheadprice, aheadodds,
\*     nameh, namea, tm       : None or Some(text) of the markers the
\*                              container carries.
\* The code cuts the text of a gamebox from its id to the next end comment
\* and takes the first marker of each kind in that text.
Placeholder == <<"--">>        \* the em dash U+2014

\* str.strip() on a token sequence.
Strip(t) ==
    LET keep == {k \in 1..Len(t) : t[k] # " "}
    IN  IF keep = {} THEN << >>
        ELSE LET lo == CHOOSE k \in keep : \A m \in keep : k <= m
                 hi == CHOOSE k \in keep : \A m \in keep : k >= m
             IN  SubSeq(t, lo, hi)

\* One <option>: << >> or <<[value, away, home]>> (the entry appended to
\* select_games).
SelectGame(opt) ==
    LET text == Strip(opt.text)
        at == {k \in 1..Len(text) : text[k] = "vs"}
    IN  IF opt.value = <<"">> \/ opt.value = <<"0">> \/ at = {} THEN << >>
        ELSE IF Cardinality(at) # 1 THEN << >>      \* len(parts) # 2
        ELSE LET k == CHOOSE n \in at : TRUE
             IN  <<[value |-> opt.value,
                    away |-> Strip(SubSeq(text, 1, k - 1)),
                    home |-> Strip(SubSeq(text, k + 1, Len(text)))]>>

RECURSIVE SelectGames(_)
SelectGames(options) ==
    IF options = << >> THEN << >>
    ELSE SelectGame(Head(options)) \o SelectGames(Tail(options))

StatKeys ==
    [record |-> <<"awayRecord", "homeRecord">>,
     recent |-> <<"awayRecent", "homeRecent">>,
     h2h |-> <<"awayH2H", "homeH2H">>,
     avg |-> <<"awayAvg", "homeAvg">>,
     ha |-> <<"awayHomeAway", "homeHomeAway">>]

\* The record map built from the five extract_stat calls.
RecordFromStats(stats) ==
    LET present == {l \in DOMAIN StatKeys : stats[l] # None}
        keys == UNION {{StatKeys[l][1], StatKeys[l][2]} : l \in present}
    IN  [k \in keys |->
            LET l == CHOOSE x \in present : k \in {StatKeys[x][1], StatKeys[x][2]}
            IN  IF k = StatKeys[l][1] THEN Val(stats[l])[1] ELSE Val(stats[l])[2]]

\* The first marker of one kind in the text of gamebox i: what re.search
\* finds in box_html, None when there is none or the text is not cut.
FirstMarker(boxes, i, kind) ==
    LET box_end == WindowEnd(boxes, i)
        hits == {k \in i..box_end : boxes[k][kind] # None}
    IN  IF box_end = 0 \/ hits = {} THEN None
        ELSE boxes[CHOOSE k \in hits : \A m \in hits : k <= m][kind]

OddsFromBox(boxes, i) ==
    LET sp == FirstMarker(boxes, i, "aheadprice")
        so == FirstMarker(boxes, i, "aheadodds")
        keys == (IF sp # None THEN {"spread"} ELSE {})
                \cup (IF so # None THEN {"spreadOdds"} ELSE {})
    IN  [k \in keys |-> IF k = "spread" THEN Val(sp) ELSE Val(so)]

Or(a, b) == IF a # << >> THEN a ELSE b      \* Python's a or b on strings

TeamCodes(oid) == IF Len(oid) > 2 THEN oid[3] ELSE ""

DateStr(gamedate) == <<gamedate[1], "-", gamedate[2], "-", gamedate[3]>>

\* The names of one box after the three sources: <<away, home>>.
BoxNames(boxes, i, select_games) ==
    LET box == boxes[i]
        away1 == IF box.preview /\ box.left # None THEN Val(box.left) ELSE << >>
        home1 == IF box.preview /\ box.right # None THEN Val(box.right) ELSE << >>
        nh == FirstMarker(boxes, i, "nameh")
        na == FirstMarker(boxes, i, "namea")
        attr == away1 = << >> \/ home1 = << >>
        home2 == IF attr /\ home1 = << >> /\ nh # None THEN Val(nh) ELSE home1
        away2 == IF attr /\ away1 = << >> /\ na # None THEN Val(na) ELSE away1
        hits == {k \in 1..Len(select_games) : select_games[k].value = box.oid}
    IN  IF (away2 = << >> \/ home2 = << >>) /\ hits # {}
        THEN LET sg == select_games[CHOOSE k \in hits : \A m \in hits : k <= m]
             IN  <<Or(away2, sg.away), Or(home2, sg.home)>>
        ELSE <<away2, home2>>

BoxTime(boxes, i) ==
    LET box == boxes[i]
        t1 == IF box.preview /\ box.center # None THEN Val(box.center) ELSE << >>
        tm == FirstMarker(boxes, i, "tm")
    IN  IF t1 = << >> /\ tm # None THEN Val(tm) ELSE t1

\* The game of one gamebox: << >> when neither name was recovered.
BoxGame(boxes, i, select_games, ps_id, gamedate, league_name) ==
    LET box == boxes[i]
        n == BoxNames(boxes, i, select_games)
    IN  IF n[1] = << >> /\ n[2] = << >> THEN << >>
        ELSE <<[id |-> <<"ps", ps_id, gamedate, <<"num", box.id>>>>,
                gameId |-> <<"num", box.id>>,
                oid |-> box.oid,
                league |-> league_name,
                leagueId |-> ps_id,
                away |-> Or(n[1], Placeholder),
                home |-> Or(n[2], Placeholder),
                awayScore |-> None,
                homeScore |-> None,
                date |-> DateStr(gamedate),
                time |-> BoxTime(boxes, i),
                status |-> "upcoming",
                record |-> IF box.preview THEN RecordFromStats(box.stats) ELSE EmptyMap,
                odds |-> OddsFromBox(boxes, i),
                teamCodes |-> TeamCodes(box.oid),
                quarterScores |-> None]>>

\* The games of gameboxes 1..n, in document order.
RECURSIVE BoxGames(_, _, _, _, _, _)
BoxGames(boxes, n, select_games, ps_id, gamedate, league_name) ==
    IF n = 0 THEN << >>
    ELSE BoxGames(boxes, n - 1, select_games, ps_id, gamedate, league_name)
         \o BoxGame(boxes, n, select_games, ps_id, gamedate, league_name)

\* The game of entry idx (from 0) of select_games on the fallback path.
SelectFallbackGame(sg, idx, ps_id, gamedate, league_name) ==
    [id |-> <<"ps", ps_id, gamedate, <<"sel", idx>>>>,
     gameId |-> <<"sel", idx>>,
     oid |-> sg.value,
     league |-> league_name,
     leagueId |-> ps_id,
     away |-> sg.away,
     home |-> sg.home,
     awayScore |-> None,
     homeScore |-> None,
     date |-> DateStr(gamedate),
     time |-> << >>,
     status |-> "upcoming",
     record |-> EmptyMap,
     odds |-> EmptyMap,
     teamCodes |-> "",
     quarterScores |-> None]

\* parse_pre_html with the drop-down games appended whatever the gameboxes
\* gave.
parse_pre_html_appending(doc, ps_id, gamedate, league_name) ==
    LET select_games == SelectGames(doc.options)
    IN  BoxGames(doc.boxes, Len(doc.boxes), select_games, ps_id, gamedate, league_name)
        \o [k \in 1..Len(select_games) |->
                SelectFallbackGame(select_games[k], k - 1, ps_id, gamedate, league_name)]

parse_pre_html(doc, ps_id, gamedate, league_name) ==
    LET select_games == SelectGames(doc.options)
        games == BoxGames(doc.boxes, Len(doc.boxes), select_games, ps_id, gamedate,
                          league_name)
    IN  IF games # << >> THEN games
        ELSE [k \in 1..Len(select_games) |->
                SelectFallbackGame(select_games[k], k - 1, ps_id, gamedate, league_name)]

\* ------------------------------------------------------------------------
\* League fetch: fetch_playsport and fetch_all_games (src/scraper.py)
\* ------------------------------------------------------------------------
\* PS_LEAGUES; the display names are transliterated.
PS_LEAGUES ==
    [basketball |-> <<[psId |-> "3", name |-> "NBA"],
                      [psId |-> "8", name |-> "EuroLeague"],
                      [psId |-> "89", name |-> "SBL"],
                      [psId |-> "92", name |-> "KBL"],
                      [psId |-> "97", name |-> "B.League"]>>,
     baseball |-> <<[psId |-> "1", name |-> "MLB"],
                    [psId |-> "2", name |-> "NPB"],
                    [psId |-> "6", name |-> "CPBL"],
                    [psId |-> "9", name |-> "KBO"]>>,
     soccer |-> <<[psId |-> "4", name |-> "Soccer"]>>,
     hockey |-> <<[psId |-> "91", name |-> "NHL"]>>,
     tennis |-> <<[psId |-> "21", name |-> "Tennis"]>>]

AllLeagues ==
    UNION {{PS_LEAGUES[sp][k] : k \in 1..Len(PS_LEAGUES[sp])} : sp \in DOMAIN PS_LEAGUES}

get_league_name(ps_id) ==
    IF \E l \in AllLeagues : l.psId = ps_id
    THEN (CHOOSE l \in AllLeagues : l.psId = ps_id).name
    ELSE "unknown"

\* The outcome of one requests.get: kind "raise" (connection error or
\* timeout) or kind "resp" with the HTTP status code and the body.
\* A league fetch takes the two outcomes and fault, which is TRUE when an
\* exception is raised while the two bodies are parsed and merged.
FetchRaises(inp) == inp.live.kind = "raise" \/ inp.pre.kind = "raise"

\* fetch_playsport: [raised, games].
fetch_playsport(ps_id, gamedate, inp) ==
    IF FetchRaises(inp) THEN [raised |-> FALSE, games |-> << >>]
    ELSE IF inp.fault THEN [raised |-> TRUE, games |-> << >>]
    ELSE LET games == parse_pre_html(inp.pre.body, ps_id, gamedate,
                                     get_league_name(ps_id))
             score_data == parse_live_scores(inp.live.body)
         IN  [raised |-> FALSE, games |-> MergeAll(games, score_data)]

status_order == [live |-> 0, upcoming |-> 1, postponed |-> 2, finished |-> 3]

Priority(status) ==
    IF status \in DOMAIN status_order THEN status_order[status] ELSE 9

\* Code point order of the characters of a time text.
CharCode(c) ==
    CASE c = " " -> 32 [] c = ":" -> 58 [] c \in Digits -> 48 + DigitVal(c)
      [] OTHER -> 23458

\* Python's < on two strings.
RECURSIVE StrLess(_, _)
StrLess(a, b) ==
    IF b = << >> THEN FALSE
    ELSE IF a = << >> THEN TRUE
    ELSE IF Head(a) # Head(b) THEN CharCode(Head(a)) < CharCode(Head(b))
    ELSE StrLess(Tail(a), Tail(b))

\* KeyLess comparing the times as clock times: a shorter hour comes first.
KeyLessClockTime(g1, g2) ==
    \/ Priority(g1.status) < Priority(g2.status)
    \/ /\ Priority(g1.status) = Priority(g2.status)
       /\ \/ Len(g1.time) < Len(g2.time)
          \/ Len(g1.time) = Len(g2.time) /\ StrLess(g1.time, g2.time)

\* The sort key (status_order.get(status, 9), time) of g1 is less than g2's.
KeyLess(g1, g2) ==
    \/ Priority(g1.status) < Priority(g2.status)
    \/ Priority(g1.status) = Priority(g2.status) /\ StrLess(g1.time, g2.time)

\* list.sort(key = ...): stable, ascending.
RECURSIVE SortGames(_)
SortGames(games) ==
    IF games = << >> THEN << >>
    ELSE LET sorted == SortGames(SubSeq(games, 1, Len(games) - 1))
             g == games[Len(games)]
             n == Cardinality({k \in 1..Len(sorted) : ~KeyLess(g, sorted[k])})
         IN  SubSeq(sorted, 1, n) \o <<g>> \o SubSeq(sorted, n + 1, Len(sorted))

Leagues(sport) == IF sport \in DOMAIN PS_LEAGUES THEN PS_LEAGUES[sport] ELSE << >>

\* LeagueStep without the try / except: the exception leaves fetch_all_games.
LeagueStepUncaught(acc, r) ==
    IF r.raised THEN [acc EXCEPT !.raised = TRUE]
    ELSE [acc EXCEPT !.games = @ \o r.games]

\* One turn of the loop over the leagues: the try / except around
\* fetch_playsport.  acc is [raised, games]: raised is TRUE once an
\* exception has left fetch_all_games.
LeagueStep(acc, r) ==
    IF r.raised THEN acc
    ELSE [acc EXCEPT !.games = @ \o r.games]

\* The loop of fetch_all_games over the first Len(inputs) leagues.
RECURSIVE FetchLeagues(_, _, _)
FetchLeagues(leagues, gamedate, inputs) ==
    IF inputs = << >> THEN [raised |-> FALSE, games |-> << >>]
    ELSE LET k == Len(inputs)
             acc == FetchLeagues(leagues, gamedate, SubSeq(inputs, 1, k - 1))
         IN  IF acc.raised THEN acc
             ELSE LeagueStep(acc, fetch_playsport(leagues[k].psId, gamedate, inputs[k]))

\* fetch_all_games(sport, gamedate), inputs[k] being what the fetches of
\* league k yield: [raised, games].
fetch_all_games(sport, gamedate, inputs) ==
    LET acc == FetchLeagues(Leagues(sport), gamedate, inputs)
    IN  IF acc.raised THEN [raised |-> TRUE, games |-> << >>]
        ELSE [raised |-> FALSE, games |-> SortGames(acc.games)]

\* ------------------------------------------------------------------------
\* Documents and responses fed to the league fetch
\* ------------------------------------------------------------------------
\* A pre-game document holds at most MaxBoxes gameboxes.
MaxBoxes == 2

GameDate == <<"2026", "11", "01">>

T_1930 == <<"1", "9", ":", "3", "0">>

T_900 == <<"9", ":", "0", "0">>

T_1000 == <<"1", "0", ":", "0", "0">>

Oid1 == <<"20261101", "3", "ab">>

Oid2 == <<"o2">>

NoStats == [l \in DOMAIN StatKeys |-> None]

BareBox ==
    [id |-> 0, oid |-> Oid1, preview |-> FALSE, left |-> None, right |-> None,
     center |-> None, stats |-> NoStats, closed |-> FALSE,
     aheadprice |-> None, aheadodds |-> None, nameh |-> None, namea |-> None,
     tm |-> None]

\* both names and the time from the preview, two stats, odds
BoxFull ==
    [BareBox EXCEPT !.preview = TRUE, !.left = Some(<<"a">>), !.right = Some(<<"b">>),
                    !.center = Some(T_1930),
                    !.stats = [NoStats EXCEPT !.record = Some(<<T_20W35L, T_30W25L>>),
                                              !.avg = Some(<<T_98_99_5, << >> >>)],
                    !.closed = TRUE, !.aheadprice = Some(<<"-", "6">>),
                    !.aheadodds = Some(<<"1", ".", "9">>)]

\* no preview; the home name and the time from the container
BoxAttr ==
    [BareBox EXCEPT !.oid = Oid2, !.closed = TRUE, !.nameh = Some(<<"b">>),
                    !.tm = Some(T_900)]

\* preview with an empty left slot and no right slot
BoxEmptyLeft ==
    [BareBox EXCEPT !.preview = TRUE, !.left = Some(<< >>), !.closed = TRUE,
                    !.tm = Some(T_1000), !.aheadprice = Some(<<"2", ".", "5">>)]

\* away name from the preview, container not closed: its markers unread
BoxOpen ==
    [BareBox EXCEPT !.oid = Oid2, !.preview = TRUE, !.left = Some(<<"a", " ", "b">>),
                    !.nameh = Some(<<"b">>), !.aheadprice = Some(<<"1", "2">>),
                    !.tm = Some(T_900)]

\* names from the container, free text in the time slot
BoxTitled ==
    [BareBox EXCEPT !.oid = Oid2, !.preview = TRUE, !.center = Some(<<"x">>),
                    !.closed = TRUE, !.nameh = Some(<<"a">>), !.namea = Some(<<"b">>),
                    !.tm = Some(T_1000)]

BoxPresets == {BoxFull, BoxAttr, BoxEmptyLeft, BoxOpen, BareBox, BoxTitled}

\* The gameboxes of a document carry the site ids 1, 2, ... in order.
BoxSeqs ==
    UNION {[1..n -> BoxPresets] : n \in 0..MaxBoxes}

WithIds(boxes) == [k \in 1..Len(boxes) |-> [boxes[k] EXCEPT !.id = k]]

Opt(value, text) == [value |-> value, text |-> text]

OptionLists ==
    { << >>,
      <<Opt(Oid1, <<" ", "a", " ", "vs", " ", "b">>)>>,
      <<Opt(<<"0">>, <<"a", "vs", "b">>), Opt(Oid1, <<"a", " ", "vs">>),
        Opt(Oid2, <<" ", "vs", " ">>)>>,
      <<Opt(<<"">>, <<"a", "vs", "b">>), Opt(Oid2, <<"b", " ", "vs", " ", "a">>),
        Opt(Oid1, <<"a", "vs", "b", "vs", "a">>), Opt(Oid1, <<"a", " ", "b">>),
        Opt(Oid2, <<"a", " ", "vs", " ", "b">>)>> }

PreDocs == {[options |-> o, boxes |-> WithIds(b)] : o \in OptionLists, b \in BoxSeqs}

LeaguePsId == "3"

NoPeriods == [q \in 1..Periods |-> None]

BareEntry ==
    [asr_big |-> None, hsr_big |-> None, asr |-> None, hsr |-> None,
     as_q |-> NoPeriods, a_q |-> NoPeriods, hs_q |-> NoPeriods, h_q |-> NoPeriods,
     closed |-> TRUE, notend |-> FALSE, id |-> 0]

\* both big markers, in progress, periods in the first scheme
EntryLive ==
    [BareEntry EXCEPT !.asr_big = Some(3), !.hsr_big = Some(5), !.notend = TRUE,
                      !.as_q = [NoPeriods EXCEPT ![1] = Some(3)],
                      !.hs_q = [NoPeriods EXCEPT ![1] = Some(2), ![2] = Some(3)]]

\* away score from the secondary marker, ended, periods in the second scheme
EntryFinal ==
    [BareEntry EXCEPT !.asr = Some(7), !.hsr_big = Some(2), !.hsr = Some(9),
                      !.a_q = [NoPeriods EXCEPT ![1] = Some(4), ![3] = Some(3)]]

\* only the away score, a period of the home side
EntryHalf ==
    [BareEntry EXCEPT !.asr_big = Some(4), !.notend = TRUE,
                      !.h_q = [NoPeriods EXCEPT ![2] = Some(0)]]

\* both scores zero, in-progress marker but the container is not closed
EntryOpen ==
    [BareEntry EXCEPT !.asr_big = Some(0), !.hsr = Some(0), !.notend = TRUE,
                      !.closed = FALSE]

EntryPresets == {BareEntry, EntryLive, EntryFinal, EntryHalf, EntryOpen}

LiveIds == {1, 2}

\* The containers of ids, in ascending id order, filled from f.
RECURSIVE Containers(_, _)
Containers(ids, f) ==
    IF ids = {} THEN << >>
    ELSE LET hi == CHOOSE k \in ids : \A m \in ids : k >= m
         IN  Containers(ids \ {hi}, f) \o <<[f[hi] EXCEPT !.id = hi]>>

LiveDocs == UNION {{Containers(ids, f) : f \in [ids -> EntryPresets]} : ids \in SUBSET LiveIds}

Raise == [kind |-> "raise"]

Resp(code, body) == [kind |-> "resp", code |-> code, body |-> body]

ErrorPage == [options |-> << >>, boxes |-> << >>]

\* Outcomes of the pre-game fetch: an exception, any document with 200, and
\* with 503 the server's error page or a stale copy of a document.
PreOutcomes ==
    {Raise} \cup {Resp(200, d) : d \in PreDocs}
    \cup {Resp(503, d) : d \in {ErrorPage} \cup {x \in PreDocs : x.options = << >> /\ Len(x.boxes) = 1}}

LiveOutcomes ==
    {Raise} \cup {Resp(200, d) : d \in LiveDocs}
    \cup {Resp(503, d) : d \in {x \in LiveDocs : Len(x) <= 1}}

LeagueInput(live, pre, fault) == [live |-> live, pre |-> pre, fault |-> fault]

\* A fault is fed only with a few documents: it hides them all the same.
LeagueInputs ==
    {LeagueInput(l, p, FALSE) : l \in LiveOutcomes, p \in PreOutcomes}
    \cup {LeagueInput(l, p, TRUE) :
            l \in {x \in LiveOutcomes : x.kind = "resp" /\ x.code = 200 /\ x.body = << >>},
            p \in {x \in PreOutcomes : x.kind = "raise" \/ x.body.options = << >>}}

Doc(options, boxes) == [options |-> options, boxes |-> WithIds(boxes)]

\* The outcomes fed to each league of fetch_all_games.
OrchestratorInputs ==
    { \* one game in progress
      LeagueInput(Resp(200, Containers({1}, (1 :> EntryLive))), Resp(200, Doc(<< >>, <<BoxFull>>)), FALSE),
      \* the live fetch times out
      LeagueInput(Raise, Resp(200, Doc(<< >>, <<BoxFull>>)), FALSE),
      \* the pre-game fetch fails
      LeagueInput(Resp(200, Containers({1}, (1 :> EntryLive))), Raise, FALSE),
      \* an exception while parsing
      LeagueInput(Resp(200, Containers({1}, (1 :> EntryLive))), Resp(200, Doc(<< >>, <<BoxFull>>)), TRUE),
      \* a finished game at 19:30 and an upcoming one at 9:00
      LeagueInput(Resp(200, Containers({1, 2}, (1 :> EntryFinal) @@ (2 :> BareEntry))),
                  Resp(200, Doc(<< >>, <<BoxFull, BoxAttr>>)), FALSE),
      \* two upcoming games, at 9:00 and at 10:00
      LeagueInput(Resp(200, << >>),
                  Resp(200, Doc(<< >>, <<BoxAttr, [BoxAttr EXCEPT !.tm = Some(T_1000)]>>)),
                  FALSE),
      \* the live view answers 503 with its error page
      LeagueInput(Resp(503, << >>),
                  Resp(200, Doc(<< >>, <<BoxTitled>>)), FALSE),
      \* the live view holds only the away score of the game
      LeagueInput(Resp(200, Containers({1}, (1 :> EntryHalf))),
                  Resp(200, Doc(<< >>, <<BoxFull>>)), FALSE) }

\* ------------------------------------------------------------------------
\* State
\* ------------------------------------------------------------------------
VARIABLES
    anGame,     \* the game argument of the pending / last generate_analysis call
    anSport,    \* its sport argument
    anResult,   \* None while the call is pending, then Some(result)
    lgInput,    \* fetch_playsport: what the two fetches of the league yield
    lgParsed,   \* fetch_playsport: None or Some(games), as parse_pre_html returned them
    lgScores,   \* fetch_playsport: None or Some(score_data)
    lgResult,   \* fetch_playsport: None while pending, then Some([raised, games])
    faSport,    \* fetch_all_games: the sport argument
    faInputs,   \* fetch_all_games: what the leagues fetched so far yielded
    all_games,  \* fetch_all_games: the games accumulated so far
    faResult,   \* fetch_all_games: None while running, then Some([raised, games])
    cache,      \* app._cache: key -> [data, time]
    served,     \* None or Some([sport, date, games, at, fetches]): what
                \* get_games_cached last returned
    anRef,      \* None or Some([game, sport, result, at]): an earlier
                \* generate_analysis call, kept to compare later calls with
    prCase,     \* parse_record: None or the text under test, [w, l, form]
    prRet,      \* parse_record: None while pending, then Some(returned value)
    db,         \* membership.db: TRUE when the Firestore client exists
    admins,     \* the ids of the documents of the 'admins' collection
    codes,      \* the 'codes' collection: code -> [duration_min, used_by]
    members,    \* the 'members' collection: uid -> expires_at
    calls,      \* the redeem_code calls: process -> its position and locals
    user_date_offset,   \* app._user_date_offset: uid -> date_offset
    msg         \* None or Some(what the last command or message did)

anVars == <<anGame, anSport, anResult>>

lgVars == <<lgInput, lgParsed, lgScores, lgResult>>

faVars == <<faSport, faInputs, all_games, faResult>>

appVars == <<now, cache, served, anRef>>

prVars == <<prCase, prRet>>

mbVars == <<db, admins, codes, members, calls, user_date_offset, msg>>

vars == <<anGame, anSport, anResult, lgInput, lgParsed, lgScores, lgResult,
          faSport, faInputs, all_games, faResult, now, cache, served, anRef,
          prCase, prRet, db, admins, codes, members, calls, user_date_offset, msg>>

AnalysisIdle == anGame = None /\ anSport = "" /\ anResult = None

LeagueIdle == lgInput = None /\ lgParsed = None /\ lgScores = None /\ lgResult = None

FetchAllIdle == faSport = "" /\ faInputs = << >> /\ all_games = << >> /\ faResult = None

AppIdle ==
    now = 0 /\ cache = EmptyMap /\ served = None /\ anRef = None

RecordIdle == prCase = None /\ prRet = None

\* The concurrent redeem_code calls of the model: calls 1 and 2 are made by
\* user u1, call 3 by user u2.
Procs == {1, 2, 3}

\* A redeem_code call that has not started.
IdleCall == [pc |-> "idle", code |-> "", duration_min |-> 0, now |-> 0,
             new_expires |-> 0, ret |-> ""]

MembershipIdle ==
    /\ db = TRUE
    /\ admins = {}
    /\ codes = EmptyMap
    /\ members = EmptyMap
    /\ calls = [p \in Procs |-> IdleCall]
    /\ user_date_offset = EmptyMap
    /\ msg = None

\* ------------------------------------------------------------------------
\* Specification of the analysis engine: one call on any game and sport
\* ------------------------------------------------------------------------
InitAnalysis ==
    /\ anGame \in AnalysisGames
    /\ anSport \in Sports
    /\ anResult = None
    /\ LeagueIdle
    /\ FetchAllIdle
    /\ AppIdle
    /\ RecordIdle
    /\ MembershipIdle

\* The call generate_analysis(anGame, anSport) runs.
Analyze ==
    /\ anResult = None
    /\ anResult' = Some(generate_analysis(anGame, anSport))
    /\ UNCHANGED <<anGame, anSport, lgVars, faVars, appVars, prVars, mbVars>>

NextAnalysis == Analyze

SpecAnalysis == InitAnalysis /\ [][NextAnalysis]_vars

\* ------------------------------------------------------------------------
\* Specification of one league fetch: fetch_playsport on any two outcomes
\* ------------------------------------------------------------------------
InitLeague ==
    /\ lgInput \in LeagueInputs
    /\ lgParsed = None
    /\ lgScores = None
    /\ lgResult = None
    /\ AnalysisIdle
    /\ FetchAllIdle
    /\ AppIdle
    /\ RecordIdle
    /\ MembershipIdle

\* The call fetch_playsport(LeaguePsId, GameDate); lgParsed and lgScores
\* keep the values of its locals games (before the merge) and score_data.
FetchPlaysport ==
    /\ lgResult = None
    /\ lgResult' = Some(fetch_playsport(LeaguePsId, GameDate, lgInput))
    /\ IF FetchRaises(lgInput) \/ lgInput.fault
       THEN UNCHANGED <<lgParsed, lgScores>>
       ELSE /\ lgParsed' = Some(parse_pre_html(lgInput.pre.body, LeaguePsId, GameDate,
                                               get_league_name(LeaguePsId)))
            /\ lgScores' = Some(parse_live_scores(lgInput.live.body))
    /\ UNCHANGED <<lgInput, anVars, faVars, appVars, prVars, mbVars>>

NextLeague == FetchPlaysport

SpecLeague == InitLeague /\ [][NextLeague]_vars

\* ------------------------------------------------------------------------
\* Specification of the orchestrator: fetch_all_games, league by league
\* ------------------------------------------------------------------------

InitFetchAll ==
    /\ faSport \in Sports \cup {"curling"}
    /\ faInputs = << >>
    /\ all_games = << >>
    /\ faResult = None
    /\ AnalysisIdle
    /\ LeagueIdle
    /\ AppIdle
    /\ RecordIdle
    /\ MembershipIdle

\* fetch_all_games for a sport without configured leagues.
FetchNoLeague ==
    /\ faResult = None
    /\ Leagues(faSport) = << >>
    /\ faResult' = Some([raised |-> FALSE, games |-> SortGames(all_games)])
    /\ UNCHANGED <<faSport, faInputs, all_games, anVars, lgVars, appVars, prVars, mbVars>>

\* The next league is fetched; after the last one the list is sorted and
\* returned.
FetchLeague(inp) ==
    /\ faResult = None
    /\ Len(faInputs) < Len(Leagues(faSport))
    /\ LET k == Len(faInputs) + 1
           r == fetch_playsport(Leagues(faSport)[k].psId, GameDate, inp)
           acc == LeagueStep([raised |-> FALSE, games |-> all_games], r)
       IN  /\ faInputs' = Append(faInputs, inp)
           /\ all_games' = acc.games
           /\ faResult' = IF acc.raised THEN Some([raised |-> TRUE, games |-> << >>])
                          ELSE IF k = Len(Leagues(faSport))
                          THEN Some([raised |-> FALSE, games |-> SortGames(acc.games)])
                          ELSE None
    /\ UNCHANGED <<faSport, anVars, lgVars, appVars, prVars, mbVars>>

NextFetchAll ==
    \/ FetchNoLeague
    \/ \E inp \in OrchestratorInputs : FetchLeague(inp)

SpecFetchAll == InitFetchAll /\ [][NextFetchAll]_vars

\* ------------------------------------------------------------------------
\* Specification of the bot: cached fetches, the clock and analysis calls
\* ------------------------------------------------------------------------
CACHE_TTL == 120

\* The clock runs to MaxClock.
MaxClock == 120

TickSteps == {CACHE_TTL \div 2}

SystemSports == {"basketball", "soccer"}

\* The day after GameDate.
NextDate == <<"2026", "11", "02">>

\* What a league may yield when the bot fetches: a finished and an upcoming
\* game, or a failure.
SystemInputs ==
    { LeagueInput(Resp(200, Containers({1, 2}, (1 :> EntryFinal) @@ (2 :> BareEntry))),
                  Resp(200, Doc(<< >>, <<BoxFull, BoxAttr>>)), FALSE),
      LeagueInput(Raise, Raise, FALSE) }

\* The first league yields a, every other league fails.
SystemFetches(sport) ==
    {[k \in 1..Len(Leagues(sport)) |-> IF k = 1 THEN a ELSE LeagueInput(Raise, Raise, FALSE)] :
        a \in SystemInputs}

InitSystem ==
    /\ AnalysisIdle
    /\ LeagueIdle
    /\ FetchAllIdle
    /\ AppIdle
    /\ RecordIdle
    /\ MembershipIdle

\* Time passes.
Tick(d) ==
    /\ now + d <= MaxClock
    /\ now' = now + d
    /\ UNCHANGED <<anVars, lgVars, faVars, prVars, mbVars, cache, served, anRef>>

\* key = f'{sport}_{gamedate}'
CacheKey(sport, gamedate) == <<sport, gamedate>>

\* The freshness test with an entry of age CACHE_TTL still served.
CacheFreshInclusive(key) == key \in DOMAIN cache /\ now - cache[key].time <= CACHE_TTL

CacheFresh(key) == key \in DOMAIN cache /\ now - cache[key].time < CACHE_TTL

\* What a get_games_cached call returned: the list, with the arguments, the
\* time of the call and the number of fetch_all_games calls it made.
Served(sport, gamedate, games, fetches) ==
    Some([sport |-> sport, date |-> gamedate, games |-> games, at |-> now,
          fetches |-> fetches])

\* get_games_cached(sport, gamedate) answered from the cache.
CacheHit(sport, gamedate) ==
    /\ CacheFresh(CacheKey(sport, gamedate))
    /\ served' = Served(sport, gamedate, cache[CacheKey(sport, gamedate)].data, 0)
    /\ UNCHANGED <<anVars, lgVars, faVars, prVars, mbVars, now, cache, anRef>>

\* get_games_cached(sport, gamedate) fetching: the entry is missing or
\* stale.  An exception of fetch_all_games would leave the cache unchanged.
CacheRefresh(sport, gamedate, inputs) ==
    /\ ~CacheFresh(CacheKey(sport, gamedate))
    /\ LET r == fetch_all_games(sport, gamedate, inputs)
       IN  IF r.raised THEN UNCHANGED <<cache, served>>
           ELSE /\ cache' = [k \in DOMAIN cache \cup {CacheKey(sport, gamedate)} |->
                               IF k = CacheKey(sport, gamedate)
                               THEN [data |-> r.games, time |-> now]
                               ELSE cache[k]]
                /\ served' = Served(sport, gamedate, r.games, 1)
    /\ UNCHANGED <<anVars, lgVars, faVars, prVars, mbVars, now, anRef>>

ServedIndexes == IF served = None THEN {} ELSE 1..Len(Val(served).games)

\* An analysis that writes a mark into the game it was given: the game is
\* the object held by the cache.
AnalyzeServedMarking(i, keep) ==
    /\ \E c \in {Val(served)} :
       \E result \in {generate_analysis(c.games[i], c.sport)} :
       \E marked \in {[c.games EXCEPT ![i].status = "analysed"]} :
           /\ anGame' = c.games[i]
           /\ anSport' = c.sport
           /\ anResult' = Some(result)
           /\ anRef' = IF keep
                       THEN Some([game |-> c.games[i], sport |-> c.sport,
                                  result |-> result, at |-> now])
                       ELSE anRef
           /\ served' = Some([c EXCEPT !.games = marked])
           /\ cache' = [cache EXCEPT ![CacheKey(c.sport, c.date)].data = marked]
    /\ UNCHANGED <<lgVars, faVars, prVars, mbVars, now>>

\* handle_analysis: format_analysis_text, hence generate_analysis, on game
\* i of the list last served.  keep tells whether this call becomes the one
\* later calls are compared with.
AnalyzeServed(i, keep) ==
    /\ \E c \in {Val(served)} :
       \E result \in {generate_analysis(c.games[i], c.sport)} :
           /\ anGame' = c.games[i]
           /\ anSport' = c.sport
           /\ anResult' = Some(result)
           /\ anRef' = IF keep
                       THEN Some([game |-> c.games[i], sport |-> c.sport,
                                  result |-> result, at |-> now])
                       ELSE anRef
    /\ UNCHANGED <<lgVars, faVars, prVars, mbVars, now, cache, served>>

NextSystem ==
    \/ \E d \in TickSteps : Tick(d)
    \/ \E sport \in SystemSports : CacheHit(sport, GameDate)
    \/ \E sport \in SystemSports : \E inputs \in SystemFetches(sport) :
          CacheRefresh(sport, GameDate, inputs)
    \/ \E i \in ServedIndexes : \E keep \in BOOLEAN : AnalyzeServed(i, keep)

SpecSystem == InitSystem /\ [][NextSystem]_vars

\* ------------------------------------------------------------------------
\* Specification of the fetch cache: get_games_cached on several keys
\* ------------------------------------------------------------------------
\* The (sport, gamedate) pairs the calls are made with.
CacheCalls ==
    {<<"basketball", GameDate>>, <<"soccer", GameDate>>, <<"basketball", NextDate>>}

NextCache ==
    \/ \E d \in TickSteps : Tick(d)
    \/ \E c \in CacheCalls : CacheHit(c[1], c[2])
    \/ \E c \in CacheCalls : \E inputs \in SystemFetches(c[1]) :
          CacheRefresh(c[1], c[2], inputs)

SpecCache == InitSystem /\ [][NextCache]_vars

\* ------------------------------------------------------------------------
\* Specification of the record parser: parse_record on texts built from
\* two counts
\* ------------------------------------------------------------------------
\* Wins and losses range over 0..MaxWins.
MaxWins == 12

\* str(n) for n >= 0.
RECURSIVE ToDigits(_)
ToDigits(n) ==
    LET c == CHOOSE x \in Digits : DigitVal(x) = n % 10
    IN  IF n < 10 THEN <<c>> ELSE ToDigits(n \div 10) \o <<c>>

\* 'w<wins>l<losses>'
NativeText(w, l) == ToDigits(w) \o <<"W">> \o ToDigits(l) \o <<"L">>

\* 'w - l'
PairText(w, l) == ToDigits(w) \o <<" ", "-", " ">> \o ToDigits(l)

RecordForms ==
    {"native", "native_spaced", "pair", "pair_tight", "pair_in_text",
     "pair_then_native", "native_then_pair"}

\* The text of a case; in the two mixed forms the hyphen pair carries
\* other counts than the wins / losses pair.
RecordText(c) ==
    CASE c.form = "native" -> NativeText(c.w, c.l)
      [] c.form = "native_spaced" ->
            <<"x">> \o ToDigits(c.w) \o <<" ", "W", " ">> \o ToDigits(c.l) \o <<" ", "L">>
      [] c.form = "pair" -> PairText(c.w, c.l)
      [] c.form = "pair_tight" -> ToDigits(c.w) \o <<"-">> \o ToDigits(c.l)
      [] c.form = "pair_in_text" -> <<"x">> \o PairText(c.w, c.l) \o <<" ", "x">>
      [] c.form = "pair_then_native" ->
            PairText(c.l + 1, c.w + 1) \o <<" ">> \o NativeText(c.w, c.l)
      [] c.form = "native_then_pair" ->
            NativeText(c.w, c.l) \o <<" ">> \o PairText(c.l + 1, c.w + 1)

RecordCases ==
    {[w |-> w, l |-> l, form |-> f] : w \in 0..MaxWins, l \in 0..MaxWins, f \in RecordForms}

InitRecord ==
    /\ prCase \in RecordCases
    /\ prRet = None
    /\ AnalysisIdle
    /\ LeagueIdle
    /\ FetchAllIdle
    /\ AppIdle
    /\ MembershipIdle

\* The call parse_record(s) on the text of the case.
ParseRecord ==
    /\ prRet = None
    /\ prRet' = Some(parse_record(RecordText(prCase)))
    /\ UNCHANGED <<prCase, anVars, lgVars, faVars, appVars, mbVars>>

NextRecord == ParseRecord

SpecRecord == InitRecord /\ [][NextRecord]_vars

\* ------------------------------------------------------------------------
\* Membership: administrators, prepaid codes and members (membership.py)
\* and their commands (app.py)
\* ------------------------------------------------------------------------
\* The permanent administrators, read from ADMIN_UIDS when the module loads.
ENV_ADMINS == {"root"}

\* The users who write to the bot.
Uids == {"root", "u1", "u2"}

\* The duration labels and their minutes; "30m" and "1h" stand for the
\* first two labels of the table.
DURATION_OPTIONS == ("30m" :> 30) @@ ("1h" :> 60)

\* What follows the command word in a message: nothing (""), or a text.
Labels == {"", "30m", "1h", "2h"}

\* The code strings _generate_code_str may draw.
Codes == {"c1", "c2"}

\* timedelta(minutes = m), in seconds.
Minutes(m) == 60 * m

is_admin(uid) == uid \in ENV_ADMINS \/ (db /\ uid \in admins)

\* What a command did: who sent it, the command, its argument, the reply.
Handled(uid, action, arg, reply) ==
    Some([uid |-> uid, action |-> action, arg |-> arg, reply |-> reply])

\* add_admin(uid): the new 'admins' collection and the returned value.
add_admin(uid) ==
    IF ~db \/ is_admin(uid)
    THEN [admins |-> admins, ret |-> FALSE]
    ELSE [admins |-> admins \cup {uid}, ret |-> TRUE]

\* remove_admin(uid): the new 'admins' collection and the returned value.
remove_admin(uid) ==
    IF uid \in ENV_ADMINS \/ ~db THEN [admins |-> admins, ret |-> FALSE]
    ELSE IF uid \in admins THEN [admins |-> admins \ {uid}, ret |-> TRUE]
    ELSE [admins |-> admins, ret |-> FALSE]

\* handle_set_admin without the test of the operator.
HandleSetAdminUnchecked(operator_uid, target_uid) ==
    /\ IF target_uid = ""
       THEN /\ msg' = Handled(operator_uid, "set_admin", target_uid, "usage")
            /\ UNCHANGED admins
       ELSE /\ admins' = add_admin(target_uid).admins
            /\ msg' = Handled(operator_uid, "set_admin", target_uid,
                              IF add_admin(target_uid).ret THEN "added" ELSE "already")
    /\ UNCHANGED <<anVars, lgVars, faVars, appVars, prVars, db, codes, members, calls,
                   user_date_offset>>

\* handle_set_admin(operator_uid, target_uid); target "" is no target.
HandleSetAdmin(operator_uid, target_uid) ==
    /\ IF ~is_admin(operator_uid)
       THEN /\ msg' = Handled(operator_uid, "set_admin", target_uid, "denied")
            /\ UNCHANGED admins
       ELSE IF target_uid = ""
       THEN /\ msg' = Handled(operator_uid, "set_admin", target_uid, "usage")
            /\ UNCHANGED admins
       ELSE /\ admins' = add_admin(target_uid).admins
            /\ msg' = Handled(operator_uid, "set_admin", target_uid,
                              IF add_admin(target_uid).ret THEN "added" ELSE "already")
    /\ UNCHANGED <<anVars, lgVars, faVars, appVars, prVars, db, codes, members, calls,
                   user_date_offset>>

\* handle_remove_admin(operator_uid, target_uid).
HandleRemoveAdmin(operator_uid, target_uid) ==
    /\ IF ~is_admin(operator_uid)
       THEN /\ msg' = Handled(operator_uid, "remove_admin", target_uid, "denied")
            /\ UNCHANGED admins
       ELSE IF target_uid = ""
       THEN /\ msg' = Handled(operator_uid, "remove_admin", target_uid, "usage")
            /\ UNCHANGED admins
       ELSE /\ admins' = remove_admin(target_uid).admins
            /\ msg' = Handled(operator_uid, "remove_admin", target_uid,
                              IF remove_admin(target_uid).ret THEN "removed"
                              ELSE "not_admin")
    /\ UNCHANGED <<anVars, lgVars, faVars, appVars, prVars, db, codes, members, calls,
                   user_date_offset>>

\* The document generate_code stores (the fields that are read again).
CodeDoc(duration_label) ==
    [duration_min |-> DURATION_OPTIONS[duration_label], used_by |-> None]

\* handle_gen_code(operator_uid, duration_label): generate_code draws a code
\* string that is not yet a document of 'codes'.
HandleGenCode(operator_uid, duration_label) ==
    /\ IF ~is_admin(operator_uid)
       THEN /\ msg' = Handled(operator_uid, "gen_code", duration_label, "denied")
            /\ UNCHANGED codes
       ELSE IF duration_label = ""
       THEN /\ msg' = Handled(operator_uid, "gen_code", duration_label, "usage")
            /\ UNCHANGED codes
       ELSE IF duration_label \notin DOMAIN DURATION_OPTIONS \/ ~db
       THEN /\ msg' = Handled(operator_uid, "gen_code", duration_label, "invalid")
            /\ UNCHANGED codes
       ELSE \E code \in Codes \ DOMAIN codes :
               /\ codes' = (code :> CodeDoc(duration_label)) @@ codes
               /\ msg' = Handled(operator_uid, "gen_code", duration_label, "generated")
    /\ UNCHANGED <<anVars, lgVars, faVars, appVars, prVars, db, admins, members, calls,
                   user_date_offset>>

\* ------------------------------------------------------------------------
\* Specification of the administrator commands
\* ------------------------------------------------------------------------
InitAdmin ==
    /\ AnalysisIdle
    /\ LeagueIdle
    /\ FetchAllIdle
    /\ AppIdle
    /\ RecordIdle
    /\ db \in BOOLEAN
    /\ admins = {}
    /\ codes = EmptyMap
    /\ members = EmptyMap
    /\ calls = [p \in Procs |-> IdleCall]
    /\ user_date_offset = EmptyMap
    /\ msg = None

NextAdmin ==
    \/ \E op \in Uids : \E target \in Uids \cup {""} : HandleSetAdmin(op, target)
    \/ \E op \in Uids : \E target \in Uids \cup {""} : HandleRemoveAdmin(op, target)
    \/ \E op \in Uids : \E label \in Labels : HandleGenCode(op, label)

SpecAdmin == InitAdmin /\ [][NextAdmin]_vars

\* ------------------------------------------------------------------------
\* Specification of the redemptions: concurrent redeem_code calls
\* ------------------------------------------------------------------------
\* The requests of the web server run concurrently; each Firestore read or
\* write of redeem_code is one step of the call.

\* The clock of the redemptions runs to MaxTime, in seconds.
MaxTime == 3600

ElapseSteps == {1800}

\* The user who makes each call.
ProcUser == (1 :> "u1") @@ (2 :> "u1") @@ (3 :> "u2")

\* A call that returned ret without writing.
Refused(code, ret) == [IdleCall EXCEPT !.pc = "done", !.code = code, !.ret = ret]

\* Time passes.
Elapse(d) ==
    /\ now + d <= MaxTime
    /\ now' = now + d
    /\ UNCHANGED <<anVars, lgVars, faVars, prVars, mbVars, cache, served, anRef>>

\* handle_redeem(uid, code) up to the test of used_by: the code document is
\* read once.  code "" is a message without a code.
RedeemBegin(p, code) ==
    /\ calls[p].pc = "idle"
    /\ calls' = [calls EXCEPT ![p] =
          IF code = "" THEN Refused(code, "prompt")
          ELSE IF ~db THEN Refused(code, "maintenance")
          ELSE IF code \notin DOMAIN codes THEN Refused(code, "invalid")
          ELSE IF codes[code].used_by # None THEN Refused(code, "used")
          ELSE [IdleCall EXCEPT !.pc = "checked", !.code = code,
                                !.duration_min = codes[code].duration_min]]
    /\ UNCHANGED <<anVars, lgVars, faVars, appVars, prVars, db, admins, codes, members,
                   user_date_offset, msg>>

\* redeem_code: now is read and the code is marked as used.
RedeemMark(p) ==
    /\ calls[p].pc = "checked"
    /\ codes' = [codes EXCEPT ![calls[p].code].used_by = Some(ProcUser[p])]
    /\ calls' = [calls EXCEPT ![p].pc = "marked", ![p].now = now]
    /\ UNCHANGED <<anVars, lgVars, faVars, appVars, prVars, db, admins, members,
                   user_date_offset, msg>>

\* The new expiry from the member document as it is read.
NewExpires(uid, at, duration_min) ==
    IF uid \in DOMAIN members /\ members[uid] > at
    THEN members[uid] + Minutes(duration_min)
    ELSE at + Minutes(duration_min)

\* redeem_code: the member document is read and the new expiry computed.
RedeemRead(p) ==
    /\ calls[p].pc = "marked"
    /\ calls' = [calls EXCEPT ![p].pc = "computed",
                              ![p].new_expires =
                                  NewExpires(ProcUser[p], calls[p].now,
                                             calls[p].duration_min)]
    /\ UNCHANGED <<anVars, lgVars, faVars, appVars, prVars, db, admins, codes, members,
                   user_date_offset, msg>>

\* redeem_code: the member document is written and the call returns success.
RedeemWrite(p) ==
    /\ calls[p].pc = "computed"
    /\ members' = (ProcUser[p] :> calls[p].new_expires) @@ members
    /\ calls' = [calls EXCEPT ![p].pc = "done", ![p].ret = "ok"]
    /\ UNCHANGED <<anVars, lgVars, faVars, appVars, prVars, db, admins, codes,
                   user_date_offset, msg>>

NextRedeem ==
    \/ \E d \in ElapseSteps : Elapse(d)
    \/ \E label \in DOMAIN DURATION_OPTIONS : HandleGenCode("root", label)
    \/ \E p \in Procs : \E code \in Codes \cup {""} : RedeemBegin(p, code)
    \/ \E p \in Procs : RedeemMark(p)
    \/ \E p \in Procs : RedeemRead(p)
    \/ \E p \in Procs : RedeemWrite(p)

SpecRedeem == InitAdmin /\ [][NextRedeem]_vars

\* ------------------------------------------------------------------------
\* Specification of the message gate: handle_message for the game commands
\* ------------------------------------------------------------------------
\* is_member_active with a membership still active at its expiry time.
is_member_active_inclusive(uid) ==
    IF is_admin(uid) THEN TRUE
    ELSE IF ~db THEN FALSE
    ELSE IF uid \notin DOMAIN members THEN FALSE
    ELSE now <= members[uid]

is_member_active(uid) ==
    IF is_admin(uid) THEN TRUE
    ELSE IF ~db THEN FALSE
    ELSE IF uid \notin DOMAIN members THEN FALSE
    ELSE now < members[uid]

\* The commands that need a membership.
MemberActions == {"select_sport", "list", "analysis"}

\* The date offsets of the messages: today and tomorrow.
DateOffsets == {0, 1}

\* get_date_str(offset)
get_date_str(offset) == IF offset = 0 THEN GameDate ELSE NextDate

\* get_games_cached storing what fetch_all_games returned (r): whether the
\* call raised, the returned list, the number of fetches and the cache.
StoreFetched(sport, gamedate, r) ==
    IF r.raised
    THEN [raised |-> TRUE, games |-> << >>, fetches |-> 1, cache |-> cache]
    ELSE [raised |-> FALSE, games |-> r.games, fetches |-> 1,
          cache |-> [k \in DOMAIN cache \cup {CacheKey(sport, gamedate)} |->
                        IF k = CacheKey(sport, gamedate)
                        THEN [data |-> r.games, time |-> now]
                        ELSE cache[k]]]

\* get_games_cached(sport, gamedate) as a function of what a fetch would
\* yield.
get_games_cached(sport, gamedate, inputs) ==
    IF CacheFresh(CacheKey(sport, gamedate))
    THEN [raised |-> FALSE, games |-> cache[CacheKey(sport, gamedate)].data,
          fetches |-> 0, cache |-> cache]
    ELSE StoreFetched(sport, gamedate, fetch_all_games(sport, gamedate, inputs))

\* The offset handle_list or handle_analysis is called with: the one of
\* the message, or for an analysis message that names none the one
\* remembered for the user.
CallOffset(uid, action, date_offset) ==
    IF action = "analysis" /\ date_offset = 0 /\ uid \in DOMAIN user_date_offset
    THEN user_date_offset[uid] ELSE date_offset

\* The reply of handle_list or handle_analysis to the returned list g: the
\* analysis is that of the first game.
GamesReply(action, sport, g) ==
    IF g.raised THEN "raised"
    ELSE IF g.games = << >> THEN "no_games"
    ELSE IF action = "list" THEN "list"
    ELSE IF generate_analysis(g.games[1], sport).raised THEN "raised"
    ELSE "analysis"

\* handle_list / handle_analysis on the (sport, gamedate) of the message.
ServeGames(uid, action, sport, date_offset, offset, g) ==
    /\ cache' = g.cache
    /\ served' = IF g.raised THEN served
                 ELSE Served(sport, get_date_str(offset), g.games, g.fetches)
    /\ msg' = Handled(uid, action, date_offset, GamesReply(action, sport, g))

\* handle_message for a select_sport, list or analysis message that names
\* no team; list and analysis are for one named sport.
HandleMessage(uid, action, sport, date_offset, inputs) ==
    /\ IF ~is_member_active(uid)
       THEN /\ msg' = Handled(uid, action, date_offset, "denied")
            /\ UNCHANGED <<cache, served, user_date_offset>>
       ELSE IF action = "select_sport"
       THEN /\ user_date_offset' = (uid :> date_offset) @@ user_date_offset
            /\ msg' = Handled(uid, action, date_offset, "select")
            /\ UNCHANGED <<cache, served>>
       ELSE /\ user_date_offset' = IF action = "list"
                                   THEN (uid :> date_offset) @@ user_date_offset
                                   ELSE user_date_offset
            /\ ServeGames(uid, action, sport, date_offset,
                          CallOffset(uid, action, date_offset),
                          get_games_cached(sport,
                              get_date_str(CallOffset(uid, action, date_offset)),
                              inputs))
    /\ UNCHANGED <<anVars, lgVars, faVars, prVars, now, anRef, db, admins, codes, members,
                   calls>>

\* The members at the start: u1, with a membership that expires at the
\* first tick of the clock.
GateMembers == {"u1" :> (CACHE_TTL \div 2)}

\* What the fetch of a message yields: a finished and an upcoming game.
GateFetches == {f \in SystemFetches("basketball") : ~FetchRaises(f[1])}

InitGate ==
    /\ AnalysisIdle
    /\ LeagueIdle
    /\ FetchAllIdle
    /\ AppIdle
    /\ RecordIdle
    /\ db \in BOOLEAN
    /\ admins = {"u2"}
    /\ codes = EmptyMap
    /\ members \in GateMembers
    /\ calls = [p \in Procs |-> IdleCall]
    /\ user_date_offset = EmptyMap
    /\ msg = None

NextGate ==
    \/ \E d \in TickSteps : Tick(d)
    \/ \E uid \in Uids : \E action \in MemberActions : \E date_offset \in DateOffsets :
          \E inputs \in GateFetches :
              HandleMessage(uid, action, "basketball", date_offset, inputs)

SpecGate == InitGate /\ [][NextGate]_vars

\* ------------------------------------------------------------------------
\* Properties of the analysis engine
\* ------------------------------------------------------------------------
Returned == anResult # None /\ ~Val(anResult).raised

\* C1: whenever generate_analysis returns, homeWin, draw and awayWin are
\* each between 0 and 100 and add up to exactly 100.
C1_TripleSumsTo100 ==
    Returned =>
        LET r == Val(anResult)
        IN  /\ r.homeWin \in 0..100
            /\ r.draw \in 0..100
            /\ r.awayWin \in 0..100
            /\ r.homeWin + r.draw + r.awayWin = 100


C1_Witness ==
    /\ Returned
    /\ anGame.status = "upcoming"
    /\ anSport = "soccer"
    /\ Val(anResult).homeWin = 55
    /\ Val(anResult).draw = 5
    /\ Val(anResult).awayWin = 40

\* C2 (as claimed): generate_analysis returns draw = 0 for every sport
\* without a draw outcome: basketball, and also baseball and tennis.
NoDrawSports == {"basketball", "baseball", "tennis"}

C2_NoDrawSportsHaveNoDraw ==
    (Returned /\ anSport \in NoDrawSports) => Val(anResult).draw = 0

\* An upcoming game without any context: empty record, no parsable
\* non-zero spread.
SpreadOf(game) ==
    ParseFloat(IF HasKey(game.odds, "spread") THEN game.odds["spread"] ELSE << >>)

AllContextAbsent(game) ==
    /\ game.status = "upcoming"
    /\ game.record = EmptyMap
    /\ ~(SpreadOf(game).ok /\ SpreadOf(game).v # 0)

FallbackPair ==
    <<Line("fallback_home_advantage", "both"), Line("fallback_watch_injuries", "both")>>

Triple(r) == <<r.homeWin, r.draw, r.awayWin>>

\* C3 (as claimed): with all context absent the rationale is exactly the two
\* fallback lines and the result is the initial 45/0/55 (45/25/30 for the
\* other sports) with confidence 50.
C3_FallbackReturnsInitialBaseline ==
    (Returned /\ AllContextAbsent(anGame)) =>
        /\ Val(anResult).suggestion = FallbackPair
        /\ Triple(Val(anResult)) =
              IF IsBasketball(anSport) THEN <<45, 0, 55>> ELSE <<45, 25, 30>>
        /\ Val(anResult).confidence = 50 * Unit

\* C3 (amended): with all context absent the rationale is the two fallback
\* lines followed by the 'evenly matched' summary line, and the result is
\* 50/0/50 for basketball and 45/10/45 for the other sports, confidence 50.
C3_FallbackReturnsEvenSplit ==
    (Returned /\ AllContextAbsent(anGame)) =>
        /\ Val(anResult).suggestion = FallbackPair \o <<Line("summary_even", "both")>>
        /\ Triple(Val(anResult)) =
              IF IsBasketball(anSport) THEN <<50, 0, 50>> ELSE <<45, 10, 45>>
        /\ Val(anResult).confidence = 50 * Unit

C3_Witness ==
    /\ Returned
    /\ AllContextAbsent(anGame)
    /\ HasKey(anGame.odds, "spread")
    /\ anGame.odds["spread"] = <<"x">>
    /\ anSport = "basketball"
    /\ Len(Val(anResult).suggestion) = 3

FinishedWithScores(game) ==
    game.status = "finished" /\ game.homeScore # None /\ game.awayScore # None

ScoreDiff(game) == Val(game.homeScore) - Val(game.awayScore)

HasPostedSpread(game) == SpreadOf(game).ok /\ SpreadOf(game).v # 0

\* C14 (as claimed): for a finished game with both scores the rationale
\* states the winner and the margin, 'dominant' from 15, 'comfortable' from
\* 8 and 'close' below; confidence is 90; the winner's percentage is
\* strictly greater than the loser's; a coverage sentence is present exactly
\* when a parsable non-zero spread was posted.
C14_FinishedFavoursWinner ==
    (anResult # None /\ FinishedWithScores(anGame)) =>
        LET r == Val(anResult)
            diff == ScoreDiff(anGame)
            margin == Abs(diff)
        IN  /\ ~r.raised
            /\ r.confidence = 90 * Unit
            /\ r.suggestion[1].tag = (IF margin >= 15 THEN "final_dominant"
                                      ELSE IF margin >= 8 THEN "final_comfortable"
                                      ELSE "final_close")
            /\ r.suggestion[1].who \in {"home", "away"}
            /\ r.suggestion[1].who = "home" => (diff > 0 /\ r.homeWin > r.awayWin)
            /\ r.suggestion[1].who = "away" => (diff < 0 /\ r.awayWin > r.homeWin)
            /\ Len(r.suggestion) = (IF HasPostedSpread(anGame) THEN 2 ELSE 1)

\* C15: in the finished branch a positive spread means the home side is
\* favoured: it covered iff diff > spread; with a negative spread the away
\* side is favoured and covered iff diff < spread, both strictly.
C15_CoverageSignConvention ==
    (anResult # None /\ FinishedWithScores(anGame) /\ HasPostedSpread(anGame)) =>
        LET r == Val(anResult)
            diff == ScoreDiff(anGame)
            spread == SpreadOf(anGame).v
            fav == IF spread > 0 THEN "home" ELSE "away"
            covered == \/ spread > 0 /\ diff * Unit > spread
                       \/ spread < 0 /\ diff * Unit < spread
        IN  /\ ~r.raised
            /\ Len(r.suggestion) = 2
            /\ r.suggestion[2] = Line(IF covered THEN "covered" ELSE "not_covered", fav)

\* Home 100, away 80, spread -6: 'dominant', the away favourite not covering.
C15_Witness ==
    /\ anResult # None
    /\ anGame.status = "finished"
    /\ anGame.homeScore = Some(100)
    /\ anGame.awayScore = Some(80)
    /\ SpreadOf(anGame).v = -6 * Unit
    /\ Val(anResult).suggestion =
          <<Line("final_dominant", "home"), Line("not_covered", "away")>>

\* The call took the upcoming branch and returned.
UpcomingReturned ==
    /\ anResult # None
    /\ ~Val(anResult).raised
    /\ ~(anGame.status = "finished" /\ anGame.homeScore # None)
    /\ anGame.status # "live"

\* The effects of the six signal categories on the game of the call.
SignalsOf(game, sport) ==
    Signals(game, IsBasketball(sport), HasPostedSpread(game), SpreadOf(game).v)

\* The weights the categories are said to carry, in source order; the
\* scoring differential is given none.
FixedWeights(i, game) ==
    CASE i = 1 -> {8 * Unit}
      [] i = 2 -> {5 * Unit, 3 * Unit}
      [] i = 3 -> {4 * Unit, 3 * Unit}
      [] i = 4 -> {}
      [] i = 5 -> {Min2(10 * Unit, Abs(SpreadOf(game).v))}
      [] i = 6 -> {3 * Unit}

\* C16 (as claimed): in the upcoming branch every signal category that
\* fires appends a rationale line and changes exactly one of home_adj and
\* away_adj, once, by its fixed weight.
C16_FiringSignalMovesOneAccumulator ==
    UpcomingReturned =>
        \A i \in 1..6 :
            LET e == SignalsOf(anGame, anSport)[i]
            IN  e.lines # << >> =>
                    /\ (e.h # 0) # (e.a # 0)
                    /\ e.h + e.a \in FixedWeights(i, anGame)

\* C17 (as claimed): in the upcoming branch the confidence is
\* clamp(50 + 2 * |home_adj - away_adj|, 40, 85) and an integer in 40..85.
C17_ConfidenceIsClampedInteger ==
    UpcomingReturned =>
        LET sg == SignalsOf(anGame, anSport)
            c == Val(anResult).confidence
        IN  /\ c = Min2(85 * Unit, Max2(40 * Unit, 50 * Unit + 2 * Abs(HomeAdj(sg) - AwayAdj(sg))))
            /\ 40 * Unit <= c
            /\ c <= 85 * Unit
            /\ c % Unit = 0

\* C18 (as claimed): in the upcoming branch of a sport with a draw outcome
\* the returned draw percentage is at least 5, and the triple sums to 100.
C18_DrawFlooredAtFive ==
    (UpcomingReturned /\ ~IsBasketball(anSport)) =>
        /\ Val(anResult).draw >= 5
        /\ Val(anResult).homeWin + Val(anResult).draw + Val(anResult).awayWin = 100

AvgKeys == {"homeAvg", "awayAvg"}

\* The scores do not stop the call: int(None) is not reached.
ScoresReadable(game) ==
    ~(game.status = "finished" /\ game.homeScore # None /\ game.awayScore = None)

\* C12 (as claimed): a parse miss is never an error: parse_avg_score returns
\* a fragment or None on every text, and generate_analysis returns a result
\* for every game whose record and odds values are arbitrary text.
C12_ParseMissNeverRaises ==
    (anResult # None /\ ScoresReadable(anGame)) =>
        /\ \A k \in AvgKeys \cap DOMAIN anGame.record :
              parse_avg_score(anGame.record[k]).kind # "raise"
        /\ ~Val(anResult).raised

\* A call on a game in progress has returned.
LiveReturned == anResult # None /\ anGame.status = "live" /\ ~Val(anResult).raised

\* The lead of the home side, a missing score counting as 0.
LiveDiff ==
    (IF anGame.homeScore = None THEN 0 ELSE Val(anGame.homeScore))
    - (IF anGame.awayScore = None THEN 0 ELSE Val(anGame.awayScore))

\* C27: for a game in progress, whatever its scores (a missing score counts
\* as 0), the confidence is 55, the rationale is one line that tells the
\* lead of the home side, the lead of the away side or the tie, and the
\* side ahead has the strictly higher win percentage, for every sport.
C27_LiveBranch ==
    LiveReturned =>
        /\ Val(anResult).confidence = 55 * Unit
        /\ Val(anResult).suggestion =
              <<IF LiveDiff > 0 THEN Line("live_lead", "home")
                ELSE IF LiveDiff < 0 THEN Line("live_lead", "away")
                ELSE Line("live_tied", "both")>>
        /\ LiveDiff > 0 => Val(anResult).homeWin > Val(anResult).awayWin
        /\ LiveDiff < 0 => Val(anResult).awayWin > Val(anResult).homeWin
        /\ Val(anResult).homeWin + Val(anResult).draw + Val(anResult).awayWin = 100

\* A soccer game in progress without a home score, the away side at 3, with
\* a context and a spread: 35 / 10 / 55.
C27_Witness ==
    /\ LiveReturned
    /\ anSport = "soccer"
    /\ anGame.homeScore = None
    /\ anGame.awayScore = Some(3)
    /\ anGame.record = LiveContext
    /\ Val(anResult).homeWin = 35
    /\ Val(anResult).draw = 10
    /\ Val(anResult).awayWin = 55

\* ------------------------------------------------------------------------
\* Properties of the record parser
\* ------------------------------------------------------------------------
\* C13: for all counts w and l, parse_record on the wins / losses shape and
\* on the 'w - l' shape returns the same fragment, with wins w, losses l,
\* total w + l and the percentage w / (w + l) * 100 rounded to one decimal
\* (0 when w + l = 0); in a text with both shapes the wins / losses shape
\* is the one read.
C13_RecordShapesAgree ==
    prRet # None =>
        LET r == Val(prRet)
            w == prCase.w
            l == prCase.l
        IN  /\ r.ok
            /\ r.w = w
            /\ r.l = l
            /\ r.total = w + l
            /\ w + l = 0 => r.pct = 0
            /\ w + l > 0 => Abs(2 * r.pct * (w + l) - 2000 * w) <= w + l
            /\ r = parse_record(NativeText(w, l))
            /\ r = parse_record(PairText(w, l))

\* A mixed text whose hyphen pair comes first, with a percentage that lies
\* half way between two tenths (5 of 16: 31.25, returned as 31.2).
C13_Witness ==
    /\ prRet # None
    /\ prCase.form = "pair_then_native"
    /\ prCase.w = 5
    /\ prCase.l = 11
    /\ Val(prRet).pct = 312

\* ------------------------------------------------------------------------
\* Properties of one league fetch
\* ------------------------------------------------------------------------
Fetched == lgResult # None /\ ~Val(lgResult).raised

Merged == Val(lgResult).games

Parsed == Val(lgParsed)

LiveBody == lgInput.live.body

\* What the live view holds for a game: the index of its container in the
\* live document, or 0.
LiveIndex(game) ==
    LET hits == {i \in 1..Len(LiveBody) :
                    game.gameId[1] = "num" /\ LiveBody[i].id = game.gameId[2]}
    IN  IF hits = {} THEN 0 ELSE CHOOSE i \in hits : TRUE

HasAwayScore(e) == e.asr_big # None \/ e.asr # None

HasHomeScore(e) == e.hsr_big # None \/ e.hsr # None

HasPeriodScore(e) ==
    \E q \in 1..Periods :
        e.as_q[q] # None \/ e.a_q[q] # None \/ e.hs_q[q] # None \/ e.h_q[q] # None

\* The in-progress marker lies in the text of container i: between its id
\* and the end comment that follows.
CarriesNotEnd(doc, i) ==
    LET ends == {k \in i..Len(doc) : doc[k].closed}
    IN  \E k \in ends : (\A m \in ends : k <= m) /\ (\E n \in i..k : doc[n].notend)

\* C5: the merge never clears a value of the pregame parse: a field (a
\* score, the status, the period scores) for which the live view has no data
\* is unchanged in the merged game, and so is every other field.
C5_MergeNeverClears ==
    (Fetched /\ lgParsed # None) =>
        /\ Len(Merged) = Len(Parsed)
        /\ \A i \in 1..Len(Parsed) :
              LET p == Parsed[i]
                  m == Merged[i]
                  k == LiveIndex(p)
                  away == k # 0 /\ HasAwayScore(LiveBody[k])
                  home == k # 0 /\ HasHomeScore(LiveBody[k])
                  periods == k # 0 /\ HasPeriodScore(LiveBody[k])
              IN  /\ ~away => m.awayScore = p.awayScore
                  /\ ~home => m.homeScore = p.homeScore
                  /\ ~(away /\ home) => m.status = p.status
                  /\ ~periods => m.quarterScores = p.quarterScores
                  /\ [m EXCEPT !.awayScore = p.awayScore, !.homeScore = p.homeScore,
                               !.status = p.status,
                               !.quarterScores = p.quarterScores] = p

C5_Witness ==
    /\ Fetched
    /\ lgParsed # None
    /\ \E i \in 1..Len(Merged) :
          /\ Merged[i].awayScore = Some(4)
          /\ Merged[i].homeScore = None
          /\ Merged[i].status = "upcoming"
          /\ Merged[i].quarterScores # None
          /\ Parsed[i].quarterScores = None

FetchFailed(inp) ==
    \/ FetchRaises(inp)
    \/ inp.live.code \notin 200..299
    \/ inp.pre.code \notin 200..299

C8_FailedFetchYieldsNothing ==
    (lgResult # None /\ FetchFailed(lgInput)) =>
        /\ Fetched
        /\ Merged = << >>
        /\ lgParsed = None
        /\ lgScores = None

\* C10 (as claimed): every game parse_pre_html emits, on the structured path
\* and on the drop-down fallback path, has non-empty home and away names, at
\* least one of them a recovered name and not the placeholder.
C10_EmittedGamesAreNamed ==
    lgParsed # None =>
        \A i \in 1..Len(Parsed) :
            /\ Parsed[i].home # << >>
            /\ Parsed[i].away # << >>
            /\ Parsed[i].home # Placeholder \/ Parsed[i].away # Placeholder

PreBody == lgInput.pre.body

\* The accepted 'A vs B' options of the pre-game document, in option order.
Accepted == SelectGames(PreBody.options)

\* The games of the structured gamebox path.
Structured ==
    BoxGames(PreBody.boxes, Len(PreBody.boxes), Accepted, LeaguePsId, GameDate,
             get_league_name(LeaguePsId))

IsSel(game) == game.gameId[1] = "sel"

\* C11: parse_pre_html emits drop-down games exactly when the gamebox path
\* gave no game: then one game per accepted option, in option order, with
\* id ps_<league>_<date>_sel_<index>, the option's names, empty record and
\* odds, null scores and status 'upcoming'; otherwise it emits the gamebox
\* games and no sel_ game.
C11_FallbackOnlyWhenNoStructuredGame ==
    lgParsed # None =>
        IF Structured = << >>
        THEN /\ Len(Parsed) = Len(Accepted)
             /\ \A k \in 1..Len(Parsed) :
                   /\ Parsed[k].id = <<"ps", LeaguePsId, GameDate, <<"sel", k - 1>>>>
                   /\ Parsed[k].gameId = <<"sel", k - 1>>
                   /\ Parsed[k].away = Accepted[k].away
                   /\ Parsed[k].home = Accepted[k].home
                   /\ Parsed[k].oid = Accepted[k].value
                   /\ Parsed[k].record = EmptyMap
                   /\ Parsed[k].odds = EmptyMap
                   /\ Parsed[k].awayScore = None
                   /\ Parsed[k].homeScore = None
                   /\ Parsed[k].status = "upcoming"
             /\ \A j, k \in 1..Len(Parsed) : j # k => Parsed[j].id # Parsed[k].id
        ELSE /\ Parsed = Structured
             /\ \A k \in 1..Len(Parsed) : ~IsSel(Parsed[k])

\* Two accepted options among others, and a gamebox that yields no game.
C11_Witness ==
    /\ lgParsed # None
    /\ Len(PreBody.boxes) > 0
    /\ Len(PreBody.options) > 2
    /\ Len(Parsed) = 2
    /\ IsSel(Parsed[1])
    /\ IsSel(Parsed[2])
    /\ Parsed[1].away # Parsed[2].away

\* The data-oid the site gives to the game with each site game id; the live
\* view carries it on the game's container, where parse_live_scores does not
\* read it.
SiteOid == (1 :> Oid1) @@ (2 :> Oid2)

\* The gameboxes of the pre-game document carry the site's data-oid.
SiteBoxes == \A k \in 1..Len(PreBody.boxes) : PreBody.boxes[k].oid = SiteOid[PreBody.boxes[k].id]

\* The containers of the live view that hold both scores of the match of
\* game (the match is known by its oid).
LiveMatches(game) ==
    {k \in 1..Len(LiveBody) :
        /\ SiteOid[LiveBody[k].id] = game.oid
        /\ HasAwayScore(LiveBody[k])
        /\ HasHomeScore(LiveBody[k])}

\* C26: the merge changes a game only if the site game id of the game is a
\* key of the live score data, every other game is returned as it was
\* parsed, and a game of the drop-down fallback path (sel_<index>) whose
\* match the live view holds with both scores is returned with its scores
\* and a status other than 'upcoming'.
C26_MergeJoinsByGameId ==
    (Fetched /\ lgParsed # None) =>
        /\ Len(Merged) = Len(Parsed)
        /\ \A i \in 1..Len(Parsed) : LiveIndex(Parsed[i]) = 0 => Merged[i] = Parsed[i]
        /\ \A i \in 1..Len(Parsed) :
              (IsSel(Parsed[i]) /\ SiteBoxes /\ LiveMatches(Parsed[i]) # {})
                  => /\ Merged[i].awayScore # None
                     /\ Merged[i].homeScore # None
                     /\ Merged[i].status # "upcoming"

\* ------------------------------------------------------------------------
\* Properties of the orchestrator
\* ------------------------------------------------------------------------
\* The games of the leagues fetched so far that did not fail, in league
\* order.
RECURSIVE SucceededGames(_, _)
SucceededGames(leagues, inputs) ==
    IF inputs = << >> THEN << >>
    ELSE LET k == Len(inputs)
             r == fetch_playsport(leagues[k].psId, GameDate, inputs[k])
         IN  SucceededGames(leagues, SubSeq(inputs, 1, k - 1))
             \o (IF r.raised THEN << >> ELSE r.games)

Count(games, g) == Cardinality({k \in 1..Len(games) : games[k] = g})

\* C7: a league whose fetch fails (an exception, an empty or unparsable
\* response) does not abort fetch_all_games: it returns, and its result
\* holds every game of the leagues that succeeded, each exactly as often as
\* fetched.
C7_LeagueFailuresIsolated ==
    /\ all_games = SucceededGames(Leagues(faSport), faInputs)
    /\ faResult # None =>
          /\ ~Val(faResult).raised
          /\ Len(faInputs) = Len(Leagues(faSport))
          /\ Len(Val(faResult).games) = Len(all_games)
          /\ \A k \in 1..Len(all_games) :
                Count(Val(faResult).games, all_games[k]) = Count(all_games, all_games[k])

C7_Witness ==
    /\ faResult # None
    /\ \E i, j, k \in 1..Len(faInputs) :
          /\ faInputs[i].fault
          /\ faInputs[j].pre.kind = "raise"
          /\ i < k
          /\ j < k
          /\ fetch_playsport(Leagues(faSport)[k].psId, GameDate, faInputs[k]).games # << >>
    /\ Len(Val(faResult).games) >= 3

\* The rank the claim gives each status.
StatusRank(status) ==
    CASE status = "live" -> 0
      [] status = "upcoming" -> 1
      [] status = "postponed" -> 2
      [] status = "finished" -> 3
      [] OTHER -> 9

\* C9: the list fetch_all_games returns is sorted by (status priority, time
\* text compared as a string): live, upcoming, postponed, finished.
C9_ResultSorted ==
    faResult # None =>
        LET games == Val(faResult).games
        IN  \A i, j \in 1..Len(games) :
                i < j =>
                    \/ StatusRank(games[i].status) < StatusRank(games[j].status)
                    \/ /\ StatusRank(games[i].status) = StatusRank(games[j].status)
                       /\ ~StrLess(games[j].time, games[i].time)

C9_Witness ==
    /\ faResult # None
    /\ LET games == Val(faResult).games
       IN  \E i, j, k \in 1..Len(games) :
              /\ i < j
              /\ j < k
              /\ games[i].status = "live"
              /\ games[j].status = "upcoming" /\ games[j].time = T_1000
              /\ games[k].status = "upcoming" /\ games[k].time = T_900
              /\ games[Len(games)].status = "finished"

\* The status of a game and its scores agree.
StatusAgrees(game) ==
    /\ game.status \in {"upcoming", "live", "finished"}
    /\ game.status \in {"live", "finished"}
          => /\ game.awayScore # None /\ Val(game.awayScore) \in Nat
             /\ game.homeScore # None /\ Val(game.homeScore) \in Nat
    /\ (game.awayScore = None \/ game.homeScore = None) => game.status = "upcoming"

AllAgree(games) == \A i \in 1..Len(games) : StatusAgrees(games[i])

\* C25: every game that fetch_playsport returns (to its caller, or into the
\* list fetch_all_games accumulates) and every game that fetch_all_games
\* returns has status upcoming, live or finished; live or finished only
\* with both scores integers, and upcoming when a score is null.
C25_StatusAgreesWithScores ==
    /\ Fetched => AllAgree(Merged)
    /\ AllAgree(all_games)
    /\ faResult # None => AllAgree(Val(faResult).games)

\* fetch_all_games has returned a game in progress, a finished game and a
\* game of which the live view holds one score only.
C25_Witness ==
    /\ faResult # None
    /\ \E i, j, k \in 1..Len(Val(faResult).games) :
          /\ Val(faResult).games[i].status = "live"
          /\ Val(faResult).games[j].status = "finished"
          /\ Val(faResult).games[k].awayScore # None
          /\ Val(faResult).games[k].homeScore = None

Called == served' # served

ServedKey(c) == CacheKey(c.sport, c.date)

C20_CacheMemoizes ==
    [][ /\ Called =>
              LET c == Val(served')
                  key == ServedKey(c)
              IN  /\ c.at = now
                  /\ IF key \in DOMAIN cache /\ now - cache[key].time < 120
                     THEN /\ c.fetches = 0
                          /\ c.games = cache[key].data
                          /\ cache' = cache
                     ELSE /\ c.fetches = 1
                          /\ DOMAIN cache' = DOMAIN cache \cup {key}
                          /\ cache'[key] = [data |-> c.games, time |-> now]
                          /\ \A k \in DOMAIN cache \ {key} : cache'[k] = cache[k]
        /\ cache' # cache => Called
      ]_vars

\* A stale entry was replaced 120 s after its fetch while the entries of two
\* other keys, one of the same sport and one of the same date, are kept.
C20_Witness ==
    /\ served # None
    /\ Val(served).fetches = 1
    /\ Val(served).at = 120
    /\ DOMAIN cache = CacheCalls
    /\ ServedKey(Val(served)) = CacheKey("basketball", GameDate)
    /\ cache[CacheKey("basketball", NextDate)].time = 60
    /\ cache[CacheKey("soccer", GameDate)].time = 0
    /\ cache[CacheKey("soccer", GameDate)].data # << >>

\* ------------------------------------------------------------------------
\* Properties of the membership
\* ------------------------------------------------------------------------
AdminCommands == {"set_admin", "remove_admin", "gen_code"}

\* The command handled by the step, when it is one of the three
\* administrator commands.
AdminCommand == msg' # None /\ Val(msg').action \in AdminCommands

\* C24: a set-admin, remove-admin or generate-code command sent by a user
\* who is not an administrator is refused and leaves the administrators and
\* the code store unchanged; every permanent administrator is an
\* administrator after every step, and a remove-admin command aimed at one
\* by an administrator is answered "not an administrator" and changes
\* nothing.
C24_AdminCommandsNeedAdmin ==
    [][ /\ (AdminCommand /\ ~is_admin(Val(msg').uid))
            => (Val(msg').reply = "denied" /\ admins' = admins /\ codes' = codes)
        /\ \A uid \in ENV_ADMINS : is_admin(uid)'
        /\ (AdminCommand /\ is_admin(Val(msg').uid)
              /\ Val(msg').action = "remove_admin" /\ Val(msg').arg \in ENV_ADMINS)
            => (Val(msg').reply = "not_admin" /\ admins' = admins) ]_vars

\* A user who is not an administrator has asked for a code while another
\* user has been made administrator and a code exists.
C24_Witness ==
    /\ msg = Handled("u2", "gen_code", "30m", "denied")
    /\ admins = {"u1"}
    /\ codes # EmptyMap

\* Call p has written the used_by of its code.
Marked(p) == calls[p].pc \in {"marked", "computed"} \/ calls[p].ret = "ok"

Succeeded(p) == calls[p].ret = "ok"

\* C21: of the calls made for one code at most one writes the code's
\* used_by and at most one returns success; every other call for the code
\* has returned a failure without writing.
C21_CodeRedeemedAtMostOnce ==
    \A p, q \in Procs :
        (p # q /\ calls[p].code = calls[q].code)
            => (~(Marked(p) /\ Marked(q)) /\ ~(Succeeded(p) /\ Succeeded(q)))

\* One redemption applied to the expiry e (0: no member document).
Redeemed(p, e) == Max2(calls[p].now, e) + Minutes(calls[p].duration_min)

\* The expiries that the redemptions S, applied one after the other in any
\* order, lead to from the expiry e.
RECURSIVE SerialExpiries(_, _)
SerialExpiries(S, e) ==
    IF S = {} THEN {e}
    ELSE UNION {SerialExpiries(S \ {p}, Redeemed(p, e)) : p \in S}

CallsOf(uid) == {p \in Procs : ProcUser[p] = uid}

\* No call of uid is between its first read and its return.
Quiet(uid) == \A p \in CallsOf(uid) : calls[p].pc \in {"idle", "done"}

\* The calls S are for different codes.
DistinctCodes(S) == \A p, q \in S : p # q => calls[p].code # calls[q].code

\* C22: when the calls of a user have returned and those that succeeded
\* were for different codes, the member's expires_at is what the successful
\* redemptions give when they are applied one after the other in some
\* order, each setting expires_at to max(now, previous expires_at) + its
\* duration.
C22_EveryRedemptionCredited ==
    \A uid \in Uids :
        LET S == {p \in CallsOf(uid) : Succeeded(p)}
        IN  (Quiet(uid) /\ S # {} /\ DistinctCodes(S))
                => (uid \in DOMAIN members /\ members[uid] \in SerialExpiries(S, 0))

\* The step handles a select_sport, list or analysis message (the clock
\* stands still while a message is handled).
MemberMessage == now' = now /\ msg' # None /\ Val(msg').action \in MemberActions

\* C23: a select_sport, list or analysis message of a user for whom
\* is_member_active is false is answered with the refusal and changes
\* neither the cache, nor the list last served (no fetch, no handle_list,
\* no handle_analysis), nor the stored date offsets; is_member_active is
\* true only for an administrator and for a member whose expires_at is
\* strictly later than now.
C23_GameDataOnlyForActiveMembers ==
    [][ /\ (MemberMessage /\ ~is_member_active(Val(msg').uid))
            => /\ Val(msg').reply = "denied"
               /\ UNCHANGED <<cache, served, user_date_offset>>
        /\ \A uid \in Uids :
              is_member_active(uid)
                  => (is_admin(uid) \/ (uid \in DOMAIN members /\ now < members[uid])) ]_vars

\* The membership of u1 has run out: the list for tomorrow is refused, and
\* the offset stored and the list served while u1 was a member are as they
\* were.
C23_Witness ==
    /\ msg = Handled("u1", "list", 1, "denied")
    /\ now >= members["u1"]
    /\ "u1" \in DOMAIN user_date_offset
    /\ user_date_offset["u1"] = 0
    /\ served # None
    /\ Val(served).at < members["u1"]

====
